---- MODULE Spec2Model ----
(***************************************************************************)
(* A model of imf_reader.  Of imf_reader.weo.reader: the version policy    *)
(* (validate_version, gen_latest_version, roll_back_version), the cached   *)
(* single-version fetch (_fetch) and the orchestrator (fetch_data,         *)
(* clear_cache), together with the outcomes of the scraper and parser that *)
(* _fetch composes.  Of imf_reader.sdr: the announcements reader           *)
(* (fetch_allocations_holdings) and clear_cache.                           *)
(*                                                                         *)
(* Python values are records tagged by their type in field t.  A str is a  *)
(* sequence of one-character strings, so that strip(), capitalize() and    *)
(* int() are computed character by character.                              *)
(***************************************************************************)
EXTENDS Integers, Sequences, FiniteSets, TLC

VARIABLES
    cache,                \* the lru_cache of _fetch: cached version -> table
    last_version_fetched, \* the function attribute fetch_data.last_version_fetched
    call,                 \* observation of the most recent fetch_data / clear_cache call
    last_success,         \* history: version of the most recent _fetch that returned
    last_failure,         \* history: version of the most recent _fetch that raised
                          \*   since the cache was last cleared
    sdr_cache,            \* the lru_caches of the four cached SDR functions
    logger_level,         \* level of the shared logger (imf_reader.config.logger)
    sdr_call,             \* observation of the most recent call into imf_reader.sdr
    arg,                  \* argument of the pure function application under check
    result                \* outcome of that application

weo_vars == <<cache, last_version_fetched, call, last_success, last_failure>>

sdr_vars == <<sdr_cache, logger_level, sdr_call>>

vars == <<weo_vars, sdr_vars, arg, result>>

----------------------------------------------------------------------------
(* Bounds of the model *)

MinYear == 2024     \* first year in which fetch_data may be called
MaxYear == 2024     \* last year in which fetch_data may be called

----------------------------------------------------------------------------
(* Python values *)

PyInt(i)      == [t |-> "int", i |-> i]
PyStr(s)      == [t |-> "str", s |-> s]
PyFloat(w, d) == [t |-> "float", whole |-> w, tenths |-> d]   \* the float w.d, w >= 0
PyTuple(xs)   == [t |-> "tuple", items |-> xs]
PyNone        == [t |-> "NoneType"]

(* Outcome of a call: a returned value, or a raised exception class *)
Return(v)  == [exc |-> "none", val |-> v]
Raise(cls) == [exc |-> cls, val |-> <<>>]

----------------------------------------------------------------------------
(* str methods *)

Whitespace   == {" ", "\t", "\n"}
LowerLetters == <<"a","b","c","d","e","f","g","h","i","j","k","l","m",
                  "n","o","p","q","r","s","t","u","v","w","x","y","z">>
UpperLetters == <<"A","B","C","D","E","F","G","H","I","J","K","L","M",
                  "N","O","P","Q","R","S","T","U","V","W","X","Y","Z">>
DigitChars   == <<"0","1","2","3","4","5","6","7","8","9">>

Range(f) == {f[i] : i \in DOMAIN f}
IndexOf(c, seq) == CHOOSE i \in 1..Len(seq) : seq[i] = c

upper(c) == IF c \in Range(LowerLetters) THEN UpperLetters[IndexOf(c, LowerLetters)] ELSE c
lower(c) == IF c \in Range(UpperLetters) THEN LowerLetters[IndexOf(c, UpperLetters)] ELSE c

RECURSIVE lstrip(_)
lstrip(s) == IF s # <<>> /\ Head(s) \in Whitespace THEN lstrip(Tail(s)) ELSE s

RECURSIVE rstrip(_)
rstrip(s) == IF s # <<>> /\ s[Len(s)] \in Whitespace
             THEN rstrip(SubSeq(s, 1, Len(s) - 1)) ELSE s

strip(s) == rstrip(lstrip(s))

capitalize(s) == [i \in 1..Len(s) |-> IF i = 1 THEN upper(s[i]) ELSE lower(s[i])]

(* int(str): surrounding whitespace, an optional sign, then decimal digits
   that single underscores may separate.  IntOfStr is defined where
   IsIntLiteral holds; int() raises ValueError elsewhere. *)
Unsigned(s) == IF s # <<>> /\ Head(s) \in {"+", "-"} THEN Tail(s) ELSE s

IsDigits(body) ==
    /\ body # <<>>
    /\ \A i \in 1..Len(body) : body[i] \in Range(DigitChars) \cup {"_"}
    /\ body[1] # "_" /\ body[Len(body)] # "_"
    /\ \A i \in 1..(Len(body) - 1) : ~(body[i] = "_" /\ body[i+1] = "_")

IsIntLiteral(s) == IsDigits(Unsigned(strip(s)))

RECURSIVE DigitsValue(_, _)
DigitsValue(body, acc) ==
    IF body = <<>> THEN acc
    ELSE IF Head(body) = "_" THEN DigitsValue(Tail(body), acc)
    ELSE DigitsValue(Tail(body), 10 * acc + (IndexOf(Head(body), DigitChars) - 1))

IntOfStr(s) ==
    LET t == strip(s)
        v == DigitsValue(Unsigned(t), 0)
    IN IF t # <<>> /\ Head(t) = "-" THEN 0 - v ELSE v

(* The builtin int(x) for x that is not already an int *)
int(x) ==
    CASE x.t = "str"   -> IF IsIntLiteral(x.s) THEN Return(IntOfStr(x.s))
                          ELSE Raise("ValueError")
      [] x.t = "float" -> Return(x.whole)          \* truncation toward zero
      [] x.t = "int"   -> Return(x.i)
      [] OTHER         -> Raise("TypeError")       \* None, tuple

----------------------------------------------------------------------------
(* Version policy *)

April   == <<"A","p","r","i","l">>
October == <<"O","c","t","o","b","e","r">>
ValidMonths == {April, October}

(* validate_version without the strip() of the period label *)
validate_version_NoStrip(version) ==
    IF version.t # "tuple" \/ Len(version.items) # 2 THEN Raise("TypeError")
    ELSE LET label == version.items[1]
             year  == version.items[2]
         IN IF label.t # "str" THEN Raise("AttributeError")
            ELSE LET month == capitalize(label.s)
                 IN IF month \notin ValidMonths THEN Raise("TypeError")
                    ELSE IF year.t = "int" THEN Return(<<month, year.i>>)
                    ELSE LET y == int(year)
                         IN CASE y.exc = "none"       -> Return(<<month, y.val>>)
                              [] y.exc = "ValueError" -> Raise("TypeError")
                              [] OTHER                -> Raise(y.exc)

validate_version(version) ==
    IF version.t # "tuple" \/ Len(version.items) # 2 THEN Raise("TypeError")
    ELSE LET label == version.items[1]
             year  == version.items[2]
         IN IF label.t # "str" THEN Raise("AttributeError")   \* no .strip()
            ELSE LET month == capitalize(strip(label.s))
                 IN IF month \notin ValidMonths THEN Raise("TypeError")
                    ELSE IF year.t = "int" THEN Return(<<month, year.i>>)
                    ELSE LET y == int(year)
                         IN CASE y.exc = "none"       -> Return(<<month, y.val>>)
                              [] y.exc = "ValueError" -> Raise("TypeError")
                              [] OTHER                -> Raise(y.exc)

(* A Version as the Python tuple a caller passes *)
ToPy(v) == PyTuple(<<PyStr(v[1]), PyInt(v[2])>>)

----------------------------------------------------------------------------
(* datetime.now(): the dates the clock may show when it is read *)

Dates == [year : MinYear..MaxYear, month : 1..12]

(* The clock one month later; between two reads of datetime.now() the
   clock shows the same month or, across a month boundary, the next one *)
NextMonth(d) == IF d.month = 12 THEN [year |-> d.year + 1, month |-> 1]
                ELSE [year |-> d.year, month |-> d.month + 1]

(* current_year comes from the first read of the clock, current_month from
   the second *)
(* gen_latest_version taking April itself for a month before the release *)
gen_latest_version_Inclusive(first, second) ==
    LET current_year  == first.year
        current_month == second.month
    IN IF current_month <= 4 THEN <<October, current_year - 1>>
       ELSE IF current_month <= 10 THEN <<April, current_year>>
       ELSE <<October, current_year>>

gen_latest_version(first, second) ==
    LET current_year  == first.year
        current_month == second.month
    IN IF current_month < 4 THEN <<October, current_year - 1>>
       ELSE IF current_month < 10 THEN <<April, current_year>>
       ELSE <<October, current_year>>

(* roll_back_version keeping the year when it rolls April back *)
roll_back_version_SameYear(version) ==
    IF version[1] = October THEN Return(<<April, version[2]>>)
    ELSE IF version[1] = April THEN Return(<<October, version[2]>>)
    ELSE Raise("ValueError")

(* roll_back_version taking every label other than October for April *)
roll_back_version_Lenient(version) ==
    IF version[1] = October THEN Return(<<April, version[2]>>)
    ELSE Return(<<October, version[2] - 1>>)

roll_back_version(version) ==
    IF version[1] = October THEN Return(<<April, version[2]>>)
    ELSE IF version[1] = April THEN Return(<<October, version[2] - 1>>)
    ELSE Raise("ValueError")

----------------------------------------------------------------------------
(* xml.etree.ElementTree: an element has a tag, its attributes in document
   order, its child elements and its text.  A dict is the sequence of its
   <<key, value>> items in insertion order. *)

Element(tag, attrib, children, text) ==
    [tag |-> tag, attrib |-> attrib, children |-> children, text |-> text]

(* elem[i], i counted from 0 *)
Child(elem, i) == IF i < Len(elem.children) THEN Return(elem.children[i + 1])
                  ELSE Raise("IndexError")

HasKey(d, k) == \E i \in 1..Len(d) : d[i][1] = k

(* d[k] *)
GetItem(d, k) == IF HasKey(d, k)
                 THEN Return(d[CHOOSE i \in 1..Len(d) : d[i][1] = k][2])
                 ELSE Raise("KeyError")

(* d[k] = v *)
SetItem(d, k, v) == IF HasKey(d, k)
                    THEN [i \in 1..Len(d) |-> IF d[i][1] = k THEN <<k, v>> ELSE d[i]]
                    ELSE Append(d, <<k, v>>)

(* {**a, **b} *)
RECURSIVE Merge(_, _)
Merge(a, b) == IF b = <<>> THEN a
               ELSE Merge(SetItem(a, Head(b)[1], Head(b)[2]), Tail(b))

RECURSIVE Flatten(_)
Flatten(seqs) == IF seqs = <<>> THEN <<>> ELSE Head(seqs) \o Flatten(Tail(seqs))

----------------------------------------------------------------------------
(* pandas: a cell holds a str object, a number m * 10^-e or is missing
   (NaN).  A DataFrame is its column names in order and its rows in order,
   each row holding one cell per column. *)

Obj(s)      == [t |-> "object", v |-> s]
NaN         == [t |-> "NaN"]
Float(m, e) == [t |-> "float64", m |-> m, e |-> e]

Chars(s) == [i \in 1..Len(s) |-> SubSeq(s, i, i)]

(* pd.DataFrame(rows) of a list of dicts: the columns are the keys in order
   of first appearance, a key a row lacks is missing in that row *)
RECURSIVE ColumnsOf(_, _)
ColumnsOf(rows, columns) ==
    IF rows = <<>> THEN columns
    ELSE LET keys == [i \in 1..Len(Head(rows)) |-> Head(rows)[i][1]]
         IN ColumnsOf(Tail(rows),
                columns \o SelectSeq(keys, LAMBDA k : k \notin Range(columns)))

DataFrame(rows) ==
    LET columns == ColumnsOf(rows, <<>>)
    IN [columns |-> columns,
        rows |-> [r \in 1..Len(rows) |->
                     [c \in 1..Len(columns) |->
                         IF HasKey(rows[r], columns[c])
                         THEN Obj(GetItem(rows[r], columns[c]).val) ELSE NaN]]]

ColumnIndex(df, name) == CHOOSE c \in 1..Len(df.columns) : df.columns[c] = name

(* df[name] *)
Column(df, name) == [r \in 1..Len(df.rows) |-> df.rows[r][ColumnIndex(df, name)]]

(* df[name] = values: in place when the column exists, else a new last column *)
SetColumn(df, name, values) ==
    IF name \in Range(df.columns)
    THEN [df EXCEPT !.rows = [r \in 1..Len(df.rows) |->
              [df.rows[r] EXCEPT ![ColumnIndex(df, name)] = values[r]]]]
    ELSE [columns |-> Append(df.columns, name),
          rows |-> [r \in 1..Len(df.rows) |-> Append(df.rows[r], values[r])]]

(* df.rename(columns={old: new}) *)
rename(df, old, new) ==
    [df EXCEPT !.columns = [c \in 1..Len(df.columns) |->
                               IF df.columns[c] = old THEN new ELSE df.columns[c]]]

(* The float parser behind pd.to_numeric: surrounding whitespace, an optional
   sign, decimal digits with at most one decimal point.  No thousands
   separator is accepted. *)
AllDigits(s) == \A i \in 1..Len(s) : s[i] \in Range(DigitChars)

PointAt(body) == IF \E i \in 1..Len(body) : body[i] = "."
                 THEN CHOOSE i \in 1..Len(body) : body[i] = "."
                 ELSE Len(body) + 1

IsNumberLiteral(s) ==
    LET body  == Unsigned(strip(s))
        whole == SubSeq(body, 1, PointAt(body) - 1)
        frac  == SubSeq(body, PointAt(body) + 1, Len(body))
    IN /\ AllDigits(whole) /\ AllDigits(frac)
       /\ Len(whole) + Len(frac) > 0

RECURSIVE Normal(_, _)
Normal(m, e) == IF e > 0 /\ m % 10 = 0 THEN Normal(m \div 10, e - 1) ELSE Float(m, e)

NumberOfStr(s) ==
    LET t     == strip(s)
        body  == Unsigned(t)
        whole == SubSeq(body, 1, PointAt(body) - 1)
        frac  == SubSeq(body, PointAt(body) + 1, Len(body))
        m     == DigitsValue(whole \o frac, 0)
    IN Normal(IF Head(t) = "-" THEN 0 - m ELSE m, Len(frac))

(* What the parser makes of one cell: a number, missing for an empty string
   and for a missing cell, "unparsed" for every other text *)
Numeric(cell) ==
    IF cell.t # "object" THEN cell
    ELSE IF cell.v = "" THEN NaN
    ELSE IF IsNumberLiteral(Chars(cell.v)) THEN NumberOfStr(Chars(cell.v))
    ELSE [t |-> "unparsed"]

(* pd.to_numeric(series, errors=errors) *)
to_numeric(series, errors) ==
    LET parsed == [r \in 1..Len(series) |-> Numeric(series[r])]
    IN IF \E r \in 1..Len(series) : parsed[r].t = "unparsed"
       THEN IF errors = "coerce"
            THEN Return([r \in 1..Len(series) |->
                            IF parsed[r].t = "unparsed" THEN NaN ELSE parsed[r]])
            ELSE Raise("ValueError")
       ELSE Return(parsed)

----------------------------------------------------------------------------
(* The WEO parser.  A ZipFile is the sequence of its entries, each with a
   name and the root element of the document it holds. *)

SDMX_FIELDS_TO_MAP == <<
    <<"UNIT",     "IMF.CL_WEO_UNIT.1.0">>,
    <<"CONCEPT",  "IMF.CL_WEO_CONCEPT.1.0">>,
    <<"REF_AREA", "IMF.CL_WEO_REF_AREA.1.0">>,
    <<"FREQ",     "IMF.CL_FREQ.1.0">>,
    <<"SCALE",    "IMF.CL_WEO_SCALE.1.0">> >>

SDMX_NUMERIC_COLUMNS ==
    <<"REF_AREA_CODE", "OBS_VALUE", "SCALE_CODE", "LASTACTUALDATE", "TIME_PERIOD">>

namelist(folder) == [i \in 1..Len(folder) |-> folder[i].name]

endswith(s, suffix) ==
    /\ Len(s) >= Len(suffix)
    /\ SubSeq(s, Len(s) - Len(suffix) + 1, Len(s)) = suffix

(* ET.parse(folder.open(name)); of entries with one name the zip serves the last *)
open(folder, name) ==
    folder[CHOOSE i \in 1..Len(folder) :
               /\ folder[i].name = name
               /\ \A j \in (i + 1)..Len(folder) : folder[j].name # name].root

(* parse_xml taking the first observation of each series only *)
parse_xml_FirstObs(tree) ==
    LET root    == tree
        dataset == Child(root, 1)
    IN IF dataset.exc # "none" THEN dataset
       ELSE LET RowsOf(series) ==
                    [j \in 1..(IF series.children = <<>> THEN 0 ELSE 1) |->
                        Merge(series.attrib, series.children[j].attrib)]
                rows == Flatten([i \in 1..Len(dataset.val.children) |->
                                    RowsOf(dataset.val.children[i])])
            IN Return(DataFrame(rows))

parse_xml(tree) ==
    LET root    == tree
        dataset == Child(root, 1)
    IN IF dataset.exc # "none" THEN dataset
       ELSE LET RowsOf(series) ==
                    [j \in 1..Len(series.children) |->
                        Merge(series.attrib, series.children[j].attrib)]
                rows == Flatten([i \in 1..Len(dataset.val.children) |->
                                    RowsOf(dataset.val.children[i])])
            IN Return(DataFrame(rows))

(* schema_tree.findall("./simpleType[@name='field_name']/*/*") *)
findall(schema_tree, field_name) ==
    LET types  == SelectSeq(schema_tree.children,
                      LAMBDA e : /\ e.tag = "simpleType"
                                 /\ HasKey(e.attrib, "name")
                                 /\ GetItem(e.attrib, "name").val = field_name)
        Grandchildren(e) == Flatten([i \in 1..Len(e.children) |-> e.children[i].children])
    IN Flatten([i \in 1..Len(types) |-> Grandchildren(types[i])])

RECURSIVE FillLookup(_, _)
FillLookup(query, lookup_dict) ==
    IF query = <<>> THEN Return(lookup_dict)
    ELSE LET elem  == Head(query)
             value == GetItem(elem.attrib, "value")
             first == Child(elem, 0)
             doc   == IF first.exc # "none" THEN first ELSE Child(first.val, 0)
         IN IF doc.exc # "none" THEN doc
            ELSE IF value.exc # "none" THEN value
            ELSE FillLookup(Tail(query), SetItem(lookup_dict, value.val, doc.val.text))

(* lookup_schema_element refusing a classification the schema lacks *)
lookup_schema_element_Strict(schema_tree, field_name) ==
    IF findall(schema_tree, field_name) = <<>> THEN Raise("KeyError")
    ELSE FillLookup(findall(schema_tree, field_name), <<>>)

lookup_schema_element(schema_tree, field_name) ==
    FillLookup(findall(schema_tree, field_name), <<>>)

(* series.map(mapper) *)
map(series, mapper) ==
    [r \in 1..Len(series) |->
        IF series[r].t = "object" /\ HasKey(mapper, series[r].v)
        THEN Obj(GetItem(mapper, series[r].v).val) ELSE NaN]

RECURSIVE AddLabels(_, _, _)
AddLabels(fields, data_df, schema_tree) ==
    IF fields = <<>> THEN Return(data_df)
    ELSE LET column      == Head(fields)[1]
             lookup_name == Head(fields)[2]
             mapper      == lookup_schema_element(schema_tree, lookup_name)
         IN IF mapper.exc # "none" THEN mapper
            ELSE IF column \notin Range(data_df.columns) THEN Raise("KeyError")
            ELSE AddLabels(Tail(fields),
                     rename(SetColumn(data_df, column \o "_LABEL",
                                      map(Column(data_df, column), mapper.val)),
                            column, column \o "_CODE"),
                     schema_tree)

(* add_label_columns appending no label column *)
add_label_columns_CodesOnly(data_df, schema_tree) ==
    IF \E i \in 1..Len(SDMX_FIELDS_TO_MAP) :
           SDMX_FIELDS_TO_MAP[i][1] \notin Range(data_df.columns)
    THEN Raise("KeyError")
    ELSE Return([data_df EXCEPT !.columns = [c \in 1..Len(data_df.columns) |->
             IF \E i \in 1..Len(SDMX_FIELDS_TO_MAP) :
                    SDMX_FIELDS_TO_MAP[i][1] = data_df.columns[c]
             THEN data_df.columns[c] \o "_CODE" ELSE data_df.columns[c]]])

add_label_columns(data_df, schema_tree) ==
    AddLabels(SDMX_FIELDS_TO_MAP, data_df, schema_tree)

RaiseMsg(cls, msg) == [exc |-> cls, val |-> <<>>, msg |-> msg]

(* check_folder refusing only a folder that lacks a file *)
check_folder_AtLeastOne(sdmx_folder) ==
    IF Len(SelectSeq(namelist(sdmx_folder), LAMBDA file : endswith(file, ".xml"))) = 0
    THEN RaiseMsg("UnexpectedFileError", "There should be exactly one xml file in the folder")
    ELSE IF Len(SelectSeq(namelist(sdmx_folder), LAMBDA file : endswith(file, ".xsd"))) = 0
    THEN RaiseMsg("UnexpectedFileError", "There should be exactly one xsd file in the folder")
    ELSE Return(PyNone)

check_folder(sdmx_folder) ==
    IF Len(SelectSeq(namelist(sdmx_folder), LAMBDA file : endswith(file, ".xml"))) # 1
    THEN RaiseMsg("UnexpectedFileError", "There should be exactly one xml file in the folder")
    ELSE IF Len(SelectSeq(namelist(sdmx_folder), LAMBDA file : endswith(file, ".xsd"))) # 1
    THEN RaiseMsg("UnexpectedFileError", "There should be exactly one xsd file in the folder")
    ELSE Return(PyNone)

(* data[SDMX_NUMERIC_COLUMNS] = data[SDMX_NUMERIC_COLUMNS].apply(pd.to_numeric,
   errors="coerce") *)
RECURSIVE Coerce(_, _, _)
Coerce(columns, data, errors) ==
    IF columns = <<>> THEN Return(data)
    ELSE LET numbers == to_numeric(Column(data, Head(columns)), errors)
         IN IF numbers.exc # "none" THEN numbers
            ELSE Coerce(Tail(columns), SetColumn(data, Head(columns), numbers.val), errors)

(* The coercion with errors="raise" *)
coerce_numeric_columns_Strict(data) ==
    IF \E i \in 1..Len(SDMX_NUMERIC_COLUMNS) :
           SDMX_NUMERIC_COLUMNS[i] \notin Range(data.columns)
    THEN Raise("KeyError")
    ELSE Coerce(SDMX_NUMERIC_COLUMNS, data, "raise")

coerce_numeric_columns(data) ==
    IF \E i \in 1..Len(SDMX_NUMERIC_COLUMNS) :
           SDMX_NUMERIC_COLUMNS[i] \notin Range(data.columns)
    THEN Raise("KeyError")
    ELSE Coerce(SDMX_NUMERIC_COLUMNS, data, "coerce")

(* The outcome of parse: what it raised or returned, and the entries of the
   folder it opened on the way *)
Parsed(outcome, opened) == [exc |-> outcome.exc, val |-> outcome.val, opened |-> opened]

parse(sdmx_folder) ==
    LET checked == check_folder(sdmx_folder)
    IN IF checked.exc # "none" THEN Parsed(checked, <<>>)
       ELSE LET xml_file    == SelectSeq(namelist(sdmx_folder),
                                   LAMBDA file : endswith(file, ".xml"))[1]
                xsd_file    == SelectSeq(namelist(sdmx_folder),
                                   LAMBDA file : endswith(file, ".xsd"))[1]
                data_tree   == open(sdmx_folder, xml_file)
                schema_tree == open(sdmx_folder, xsd_file)
                opened      == <<xml_file, xsd_file>>
                data        == parse_xml(data_tree)
                labelled    == IF data.exc # "none" THEN data
                               ELSE add_label_columns(data.val, schema_tree)
            IN IF labelled.exc # "none" THEN Parsed(labelled, opened)
               ELSE Parsed(coerce_numeric_columns(labelled.val), opened)

(* TabParser.clean_value_col: df["OBS_VALUE"].str.replace(",", "") leaves a
   missing cell missing and needs a column of object dtype; .replace("--",
   np.nan) replaces the cells equal to "--"; pd.to_numeric raises on a text
   that is no number *)
RECURSIVE str_replace(_, _, _)
str_replace(s, old, new) ==
    IF s = "" THEN ""
    ELSE IF SubSeq(s, 1, 1) = old THEN new \o str_replace(Tail(s), old, new)
    ELSE SubSeq(s, 1, 1) \o str_replace(Tail(s), old, new)

clean_value_col(df) ==
    IF "OBS_VALUE" \notin Range(df.columns) THEN Raise("KeyError")
    ELSE LET values   == Column(df, "OBS_VALUE")
             is_text  == values = <<>> \/ \E r \in 1..Len(values) : values[r].t = "object"
             removed  == [r \in 1..Len(values) |->
                             IF values[r].t = "object"
                             THEN Obj(str_replace(values[r].v, ",", "")) ELSE NaN]
             replaced == [r \in 1..Len(values) |->
                             IF removed[r].t = "object" /\ removed[r].v = "--"
                             THEN NaN ELSE removed[r]]
             numbers  == to_numeric(replaced, "raise")
         IN IF ~is_text THEN Raise("AttributeError")
            ELSE IF numbers.exc # "none" THEN numbers
            ELSE Return(SetColumn(df, "OBS_VALUE", numbers.val))

----------------------------------------------------------------------------
(* The documents of an SDMX archive as the IMF serves them: a data file
   whose second section holds the series, each with its observations, and a
   schema file whose simpleTypes enumerate the codes of a classification *)

MaxSeries  == 2     \* most series in a data set
MaxObs     == 2     \* most observations in a series
MaxEntries == 3     \* most entries in a zip folder

Obs(attrib)         == Element("Obs", attrib, <<>>, "")
Series(attrib, obs) == Element("Series", attrib, obs, "")
Header              == Element("Header", <<>>, <<>>, "")
DataSet(series)     == Element("DataSet", <<>>, series, "")
Document(sections)  == Element("StructureSpecificData", <<>>, sections, "")

Enumeration(value, text) ==
    Element("enumeration", << <<"value", value>> >>,
        <<Element("annotation", <<>>, <<Element("documentation", <<>>, <<>>, text)>>, "")>>, "")
SimpleType(name, enumerations) ==
    Element("simpleType", << <<"name", name>> >>,
        <<Element("restriction", <<>>, enumerations, "")>>, "")
Schema(types) == Element("schema", <<>>, types, "")

SeriesAttribs == <<
    << <<"UNIT", "B">>, <<"CONCEPT", "NGDP">>, <<"REF_AREA", "111">>,
       <<"FREQ", "A">>, <<"LASTACTUALDATE", "2023">>, <<"SCALE", "1000000000">>,
       <<"NOTES", "See notes for: Gross domestic product">> >>,
    << <<"REF_AREA", "001">>, <<"UNIT", "Z">>, <<"CONCEPT", "NGDP">>,
       <<"FREQ", "A">>, <<"LASTACTUALDATE", "">>, <<"SCALE", "1">> >> >>

ObsAttribs == <<
    << <<"TIME_PERIOD", "2023">>, <<"OBS_VALUE", "105.2">> >>,
    << <<"TIME_PERIOD", "2024">>, <<"OBS_VALUE", "1,234">> >>,
    << <<"TIME_PERIOD", "2025">>, <<"OBS_VALUE", "--">>, <<"UNIT", "B">> >>,
    << <<"TIME_PERIOD", "2026">>, <<"OBS_VALUE", "n/a">>, <<"OBS_STATUS", "F">> >>,
    << <<"TIME_PERIOD", "2027">>, <<"OBS_VALUE", "estimate">> >> >>

RECURSIVE SeqsUpTo(_, _)
SeqsUpTo(S, n) ==
    IF n = 0 THEN {<<>>}
    ELSE LET shorter == SeqsUpTo(S, n - 1)
         IN shorter \cup {Append(p[1], p[2]) : p \in shorter \X S}

(* The data set with shape[i] observations in its i-th series *)
DataSetOf(shape, v) ==
    DataSet([i \in 1..Len(shape) |->
        Series(SeriesAttribs[((i + v) % Len(SeriesAttribs)) + 1],
               [j \in 1..shape[i] |->
                   Obs(ObsAttribs[((i + j + v) % Len(ObsAttribs)) + 1])])])

DataDocuments ==
    {Document(<<Header, DataSetOf(shape, v)>>) :
         shape \in SeqsUpTo(0..MaxObs, MaxSeries), v \in 0..(Len(ObsAttribs) - 1)}

(* Data files that lack the data set section *)
ShortDocuments == {Document(<<>>), Document(<<Header>>)}

AllTypes == <<
    SimpleType("IMF.CL_WEO_UNIT.1.0", <<Enumeration("B", "National currency")>>),
    SimpleType("IMF.CL_WEO_CONCEPT.1.0",
        <<Enumeration("NGDP", "Gross domestic product, current prices")>>),
    SimpleType("IMF.CL_WEO_REF_AREA.1.0",
        <<Enumeration("111", "United States"), Enumeration("001", "World")>>),
    SimpleType("IMF.CL_FREQ.1.0", <<Enumeration("A", "Annual")>>),
    SimpleType("IMF.CL_WEO_SCALE.1.0",
        <<Enumeration("1000000000", "Billions"), Enumeration("1", "Units")>>) >>

Schemas == {Schema(AllTypes), Schema(Tail(AllTypes)), Schema(<<>>),
            Schema(<<Element("element", << <<"name", "IMF.CL_FREQ.1.0">> >>, <<>>, "")>>
                   \o SubSeq(AllTypes, 1, 3))}

FieldNames == {SDMX_FIELDS_TO_MAP[i][2] : i \in 1..Len(SDMX_FIELDS_TO_MAP)}
              \cup {"IMF.CL_WEO_NOTES.1.0"}

EntryNames == {"weo.xml", "data/b.xml", "weo.xsd", "d.xsd", "weo.xml.txt", "xml"}

Entry(name) ==
    [name |-> name,
     root |-> IF endswith(name, ".xsd") THEN Schema(AllTypes)
              ELSE Document(<<Header, DataSetOf(<<1>>, 0)>>)]

(* Folders whose entries have distinct names *)
Folders ==
    {[i \in 1..Len(names) |-> Entry(names[i])] :
         names \in {ns \in SeqsUpTo(EntryNames, MaxEntries) :
                        \A i, j \in 1..Len(ns) : ns[i] = ns[j] => i = j}}

Archive(data, schema) ==
    <<[name |-> "weo.xml", root |-> data], [name |-> "weo.xsd", root |-> schema]>>

----------------------------------------------------------------------------
(* What the IMF site serves for one download: the page of the version, the
   zip behind its "SDMX Data" link, the entries of the zip; and, with each
   download, what SDMXParser.parse makes of its entries *)

NoFolder         == <<>>
UnexpectedFolder == <<Entry("weo.xml")>>
WeoFolder        == Archive(Document(<<Header, DataSetOf(<<1>>, 0)>>), Schema(AllTypes))

Downloads == {
    [page |-> "unreachable", zip |-> "-",           folder |-> NoFolder],
    [page |-> "no_anchor",   zip |-> "-",           folder |-> NoFolder],
    [page |-> "no_href",     zip |-> "-",           folder |-> NoFolder],
    [page |-> "link",        zip |-> "unreachable", folder |-> NoFolder],
    [page |-> "link",        zip |-> "corrupt",     folder |-> NoFolder],
    [page |-> "link",        zip |-> "ok",          folder |-> UnexpectedFolder],
    [page |-> "link",        zip |-> "ok",          folder |-> WeoFolder] }

Upstream == {[page |-> d.page, zip |-> d.zip, folder |-> d.folder,
              parsed |-> parse(d.folder)] : d \in Downloads}

(* The table of the one folder that parses *)
WeoTable == parse(WeoFolder).val

make_request(reach) == IF reach = "unreachable" THEN Raise("ConnectionError")
                       ELSE Return("response")

get_soup(up) == LET response == make_request(up.page)
                IN IF response.exc # "none" THEN response ELSE Return(up.page)

(* soup.find(...) is None when the anchor is absent, and None has no .get *)
get_sdmx_url(soup) ==
    IF soup = "no_anchor" THEN Raise("AttributeError")
    ELSE IF soup = "no_href" THEN Raise("NoDataError")
    ELSE Return("sdmx_url")

get_sdmx_folder(up) ==
    LET response == make_request(up.zip)
    IN IF response.exc # "none" THEN response
       ELSE IF up.zip = "corrupt" THEN Raise("BadZipFile")
       ELSE Return(up.folder)

scrape(up) ==
    LET soup == get_soup(up)
    IN IF soup.exc # "none" THEN soup
       ELSE LET sdmx_url == get_sdmx_url(soup.val)
            IN IF sdmx_url.exc # "none" THEN sdmx_url ELSE get_sdmx_folder(up)

----------------------------------------------------------------------------
(* The cached single-version fetch.  cache is a function whose domain is the
   set of versions that have an entry.  lru_cache stores a result only when
   the wrapped function returns; an exception leaves the cache as it was. *)

NoVersion == <<>>

(* _fetch without its lru_cache: every invocation scrapes and parses *)
_fetch_NoCache(version, c, up) ==
    LET folder == scrape(up)
        df     == IF folder.exc # "none" THEN folder ELSE up.parsed
    IN IF df.exc # "none"
       THEN [exc |-> df.exc, df |-> "-", cache |-> c, scraped |-> <<version>>]
       ELSE [exc |-> "none", df |-> df.val,
             cache |-> (version :> df.val) @@ c, scraped |-> <<version>>]

(* _fetch with a cache that also keeps what a failed invocation left *)
_fetch_CacheFailure(version, c, up) ==
    IF version \in DOMAIN c
    THEN [exc |-> "none", df |-> c[version], cache |-> c, scraped |-> <<>>]
    ELSE LET folder == scrape(up)
             df     == IF folder.exc # "none" THEN folder ELSE up.parsed
         IN IF df.exc # "none"
            THEN [exc |-> df.exc, df |-> "-",
                  cache |-> (version :> "-") @@ c, scraped |-> <<version>>]
            ELSE [exc |-> "none", df |-> df.val,
                  cache |-> (version :> df.val) @@ c, scraped |-> <<version>>]

_fetch(version, c, up) ==
    IF version \in DOMAIN c
    THEN [exc |-> "none", df |-> c[version], cache |-> c, scraped |-> <<>>]
    ELSE LET folder == scrape(up)
             df     == IF folder.exc # "none" THEN folder
                       ELSE up.parsed          \* SDMXParser.parse(folder)
         IN IF df.exc # "none"
            THEN [exc |-> df.exc, df |-> "-", cache |-> c, scraped |-> <<version>>]
            ELSE [exc |-> "none", df |-> df.val,
                  cache |-> (version :> df.val) @@ c, scraped |-> <<version>>]

----------------------------------------------------------------------------
(* str(x) and x[i] as the except clause of fetch_data evaluates them *)

RECURSIVE IntToStr(_)
IntToStr(n) == IF n < 0 THEN <<"-">> \o IntToStr(0 - n)
               ELSE IF n < 10 THEN <<DigitChars[n + 1]>>
               ELSE IntToStr(n \div 10) \o <<DigitChars[(n % 10) + 1]>>

str(x) ==
    CASE x.t = "str"      -> x.s
      [] x.t = "int"      -> IntToStr(x.i)
      [] x.t = "float"    -> IntToStr(x.whole) \o <<".">> \o IntToStr(x.tenths)
      [] x.t = "NoneType" -> <<"N","o","n","e">>
      [] OTHER            -> <<"(", ")">>

(* x[i], i counted from 0 *)
Subscript(x, i) ==
    CASE x.t = "tuple" -> IF i < Len(x.items) THEN Return(x.items[i + 1])
                          ELSE Raise("IndexError")
      [] x.t = "str"   -> IF i < Len(x.s) THEN Return(PyStr(<<x.s[i + 1]>>))
                          ELSE Raise("IndexError")
      [] OTHER         -> Raise("TypeError")      \* not subscriptable

(* How a message names a version: "{version[0]} {version[1]}" *)
Name(v) == <<v[1], IntToStr(v[2])>>

----------------------------------------------------------------------------
(* fetch_data.  An outcome records what the call did: the versions _fetch
   was invoked with and the exception class each invocation raised, "none"
   for a return (fetched), the versions it had to scrape, the class of the
   exception raised inside each try block (causes, "none" for a return), the
   versions handed to roll_back_version (rolled), the class of the exception
   that reaches the caller (exc) and the versions its message names (named),
   the table returned (df), and the cache and attribute left behind. *)

(* raise NoDataError(f"Could not fetch data for version:
   {version[0]} {version[1]}. {str(e)}"), version being the local variable
   as the try block left it *)
ExceptClause(version) ==
    LET month == Subscript(version, 0)
        year  == Subscript(version, 1)
    IN IF month.exc # "none" THEN [exc |-> month.exc, named |-> {}]
       ELSE IF year.exc # "none" THEN [exc |-> year.exc, named |-> {}]
       ELSE [exc |-> "NoDataError", named |-> {<<str(month.val), str(year.val)>>}]

(* FetchVersion storing the attribute before _fetch is known to return *)
FetchVersion_MarkFirst(version, c, lvf, up) ==
    LET valid == validate_version(version)
    IN IF valid.exc # "none"
       THEN LET e == ExceptClause(version)
            IN [exc |-> e.exc, named |-> e.named, causes |-> <<valid.exc>>,
                fetched |-> <<>>, scraped |-> <<>>, rolled |-> <<>>, df |-> <<>>,
                cache |-> c, lvf |-> lvf]
       ELSE LET f == _fetch(valid.val, c, up)
            IN IF f.exc # "none"
               THEN LET e == ExceptClause(ToPy(valid.val))
                    IN [exc |-> e.exc, named |-> e.named, causes |-> <<f.exc>>,
                        fetched |-> <<[version |-> valid.val, exc |-> f.exc]>>,
                        scraped |-> f.scraped,
                        rolled |-> <<>>, df |-> <<>>,
                        cache |-> f.cache, lvf |-> valid.val]
               ELSE [exc |-> "none", named |-> {}, causes |-> <<"none">>,
                     fetched |-> <<[version |-> valid.val, exc |-> "none"]>>,
                     scraped |-> f.scraped,
                     rolled |-> <<>>, df |-> <<[version |-> valid.val, table |-> f.df]>>,
                     cache |-> f.cache, lvf |-> valid.val]

(* FetchVersion rolling an explicit version back when it has no data *)
FetchVersion_Rollback(version, c, lvf, up) ==
    LET valid == validate_version(version)
    IN IF valid.exc # "none"
       THEN LET e == ExceptClause(version)
            IN [exc |-> e.exc, named |-> e.named, causes |-> <<valid.exc>>,
                fetched |-> <<>>, scraped |-> <<>>, rolled |-> <<>>, df |-> <<>>,
                cache |-> c, lvf |-> lvf]
       ELSE LET f == _fetch(valid.val, c, up)
            IN IF f.exc = "NoDataError"
               THEN LET back == roll_back_version(valid.val).val
                        g    == _fetch(back, f.cache, up)
                        e    == ExceptClause(ToPy(back))
                    IN [exc |-> IF g.exc = "none" THEN "none" ELSE e.exc,
                        named |-> IF g.exc = "none" THEN {} ELSE e.named,
                        causes |-> <<f.exc, g.exc>>,
                        fetched |-> <<[version |-> valid.val, exc |-> f.exc],
                                      [version |-> back, exc |-> g.exc]>>,
                        scraped |-> f.scraped \o g.scraped,
                        rolled |-> <<valid.val>>,
                        df |-> IF g.exc = "none"
                               THEN <<[version |-> back, table |-> g.df]>> ELSE <<>>,
                        cache |-> g.cache,
                        lvf |-> IF g.exc = "none" THEN back ELSE lvf]
               ELSE IF f.exc # "none"
               THEN LET e == ExceptClause(ToPy(valid.val))
                    IN [exc |-> e.exc, named |-> e.named, causes |-> <<f.exc>>,
                        fetched |-> <<[version |-> valid.val, exc |-> f.exc]>>,
                        scraped |-> f.scraped,
                        rolled |-> <<>>, df |-> <<>>,
                        cache |-> f.cache, lvf |-> lvf]
               ELSE [exc |-> "none", named |-> {}, causes |-> <<"none">>,
                     fetched |-> <<[version |-> valid.val, exc |-> "none"]>>,
                     scraped |-> f.scraped,
                     rolled |-> <<>>, df |-> <<[version |-> valid.val, table |-> f.df]>>,
                     cache |-> f.cache, lvf |-> valid.val]

(* The branch of fetch_data for version is not None *)
FetchVersion(version, c, lvf, up) ==
    LET valid == validate_version(version)
    IN IF valid.exc # "none"
       THEN LET e == ExceptClause(version)
            IN [exc |-> e.exc, named |-> e.named, causes |-> <<valid.exc>>,
                fetched |-> <<>>, scraped |-> <<>>, rolled |-> <<>>, df |-> <<>>,
                cache |-> c, lvf |-> lvf]
       ELSE LET f == _fetch(valid.val, c, up)
            IN IF f.exc # "none"
               THEN LET e == ExceptClause(ToPy(valid.val))
                    IN [exc |-> e.exc, named |-> e.named, causes |-> <<f.exc>>,
                        fetched |-> <<[version |-> valid.val, exc |-> f.exc]>>,
                        scraped |-> f.scraped,
                        rolled |-> <<>>, df |-> <<>>,
                        cache |-> f.cache, lvf |-> lvf]
               ELSE [exc |-> "none", named |-> {}, causes |-> <<"none">>,
                     fetched |-> <<[version |-> valid.val, exc |-> "none"]>>,
                     scraped |-> f.scraped,
                     rolled |-> <<>>, df |-> <<[version |-> valid.val, table |-> f.df]>>,
                     cache |-> f.cache, lvf |-> valid.val]

(* The except clause of the latest branch re-raising instead of retrying *)
FetchRolledBack_NoRetry(latest_version, r1, up) == r1

(* The except clause of the latest branch rolling back again when the
   rolled-back version has no data either *)
FetchRolledBack_Chain(latest_version, r1, up) ==
    LET back1 == roll_back_version(latest_version).val
        r2    == FetchVersion(ToPy(back1), r1.cache, r1.lvf, up)
        back2 == roll_back_version(back1).val
        r3    == FetchVersion(ToPy(back2), r2.cache, r2.lvf, up)
    IN IF r2.exc # "NoDataError"
       THEN [r2 EXCEPT !.causes = r1.causes \o r2.causes,
                       !.fetched = r1.fetched \o r2.fetched,
                       !.scraped = r1.scraped \o r2.scraped,
                       !.rolled = <<latest_version>>]
       ELSE [r3 EXCEPT !.causes = r1.causes \o r2.causes \o r3.causes,
                       !.fetched = r1.fetched \o r2.fetched \o r3.fetched,
                       !.scraped = r1.scraped \o r2.scraped \o r3.scraped,
                       !.rolled = <<latest_version, back1>>]

(* The second call of the latest branch, after the first one (r1) raised
   NoDataError *)
FetchRolledBack(latest_version, r1, up) ==
    LET rolled == roll_back_version(latest_version)
    IN IF rolled.exc # "none"
       THEN [r1 EXCEPT !.exc = rolled.exc, !.named = {},
                       !.rolled = <<latest_version>>]
       ELSE LET r2 == FetchVersion(ToPy(rolled.val), r1.cache, r1.lvf, up)
            IN [r2 EXCEPT !.causes = r1.causes \o r2.causes,
                          !.fetched = r1.fetched \o r2.fetched,
                          !.scraped = r1.scraped \o r2.scraped,
                          !.rolled = <<latest_version>>]

(* The versions whose download the call may need, hence the upstream
   responses that can influence it *)
Responses(version, c) == IF version \in DOMAIN c THEN {CHOOSE up \in Upstream : TRUE}
                         ELSE Upstream

----------------------------------------------------------------------------
(* The arguments callers pass *)

Years == (MinYear - 1)..MaxYear

Sp == " "

(* Explicit versions given to fetch_data: canonical and loosely spelled valid
   ones, and malformed ones *)
ValidArgs ==
    {ToPy(<<m, y>>) : m \in ValidMonths, y \in MinYear..MaxYear}
    \cup {PyTuple(<<PyStr(<<Sp,"a","p","R","i","l",Sp>>), PyStr(IntToStr(y))>>) :
              y \in MinYear..MaxYear}
    \cup {PyTuple(<<PyStr(<<"o","c","t","o","b","e","r">>),
                    PyStr(<<Sp>> \o IntToStr(y) \o <<Sp>>)>>) : y \in MinYear..MaxYear}

MalformedArgs == {
    PyTuple(<<PyStr(<<"M","a","r","c","h">>), PyInt(MaxYear)>>),
    PyTuple(<<PyStr(April), PyStr(<<"t","w","e","n","t","y">>)>>),
    PyTuple(<<PyStr(April), PyNone>>),
    PyTuple(<<PyInt(4), PyInt(MaxYear)>>),
    PyTuple(<<PyStr(April)>>),
    PyTuple(<<PyStr(April), PyInt(MaxYear), PyInt(1)>>),
    PyTuple(<<>>),
    PyStr(April \o <<Sp>> \o IntToStr(MaxYear)),
    PyStr(<<"A">>),
    PyInt(MaxYear) }

Args == ValidArgs \cup MalformedArgs

----------------------------------------------------------------------------
(* imf_reader.sdr: the announcements reader and the clearing of the SDR
   caches.  Each lru_cache is a function from the tuple of arguments of a
   call that returned to the value it returned. *)

INFO    == 20       \* logging.INFO, the level config.py gives the logger
WARNING == 30       \* logging.WARNING

(* The months a caller asks for and the site announces *)
SdrMonths == {1, 12}

(* (year, month) tuples *)
SdrDates == Years \X SdrMonths

MonthNames == <<"January", "February", "March", "April", "May", "June", "July",
                "August", "September", "October", "November", "December">>

(* The first cell of the second row of the fifth table of the main page, as
   text "%B %d, %Y" split in its three parts *)
DateCell(name, day, year) == [name |-> name, day |-> day, year |-> year]

(* What the main page of the announcements serves *)
MainPages ==
    {[page |-> "unreachable"], [page |-> "no_tables"], [page |-> "no_cell"]}
    \cup {[page |-> "tables", cell |-> DateCell(MonthNames[d[2]], 28, d[1])] :
              d \in SdrDates}
    \cup {[page |-> "tables", cell |-> DateCell("Dec", 31, MaxYear)]}

(* What the site serves for the tsv of one date *)
TsvFiles == {"table", "ParserError", "URLError"}

(* What the exchange rate and interest rate pages serve *)
RatePages == {"table", "unreachable", "ParserError"}

EmptyLru == [args \in {} |-> <<>>]

EmptySdrCache ==
    [get_holdings_and_allocations_data      |-> EmptyLru,
     fetch_latest_allocations_holdings_date |-> EmptyLru,
     fetch_exchange_rates                   |-> EmptyLru,
     fetch_interest_rates                   |-> EmptyLru]

NoSdrCall == [op |-> "none"]

InitSdr ==
    /\ sdr_cache = EmptySdrCache
    /\ logger_level = INFO
    /\ sdr_call = NoSdrCall

(* cache_info().currsize *)
currsize(lru) == Cardinality(DOMAIN lru)

(* calendar.monthrange(year, month)[1] *)
monthrange(year, month) ==
    IF month = 2
    THEN IF (year % 4 = 0 /\ year % 100 # 0) \/ year % 400 = 0 THEN 29 ELSE 28
    ELSE IF month \in {4, 6, 9, 11} THEN 30 ELSE 31

(* f"{year}-{month}-{last_day}" *)
format_date(month, year) ==
    LET last_day == monthrange(year, month)
    IN IntToStr(year) \o <<"-">> \o IntToStr(month) \o <<"-">> \o IntToStr(last_day)

read_tsv(tsv) ==
    IF tsv = "ParserError" THEN Raise("ValueError")
    ELSE IF tsv = "URLError" THEN Raise("URLError")
    ELSE Return("tsv")

(* The cached download of one date.  An outcome carries the cache it leaves
   and the arguments the wrapped function ran with (ran), none on a hit *)
get_holdings_and_allocations_data(year, month, c, tsv) ==
    LET lru == c.get_holdings_and_allocations_data
    IN IF <<year, month>> \in DOMAIN lru
       THEN [exc |-> "none", val |-> lru[<<year, month>>], cache |-> c, ran |-> <<>>]
       ELSE LET date == format_date(month, year)
                df   == read_tsv(tsv)
            IN IF df.exc # "none"
               THEN [exc |-> df.exc, val |-> <<>>, cache |-> c,
                     ran |-> <<<<year, month>>>>]
               ELSE LET table == [date |-> date]
                    IN [exc |-> "none", val |-> table,
                        cache |-> [c EXCEPT !.get_holdings_and_allocations_data =
                                                (<<year, month>> :> table) @@ lru],
                        ran |-> <<<<year, month>>>>]

(* datetime.strptime(date, "%B %d, %Y"), then (date.year, date.month) *)
strptime(cell) ==
    IF cell.name \notin Range(MonthNames) THEN Raise("ValueError")
    ELSE IF cell.day > monthrange(cell.year, IndexOf(cell.name, MonthNames))
    THEN Raise("ValueError")
    ELSE Return(<<cell.year, IndexOf(cell.name, MonthNames)>>)

(* The cached lookup of the latest announced date *)
fetch_latest_allocations_holdings_date(c, main) ==
    LET lru == c.fetch_latest_allocations_holdings_date
    IN IF <<>> \in DOMAIN lru
       THEN [exc |-> "none", val |-> lru[<<>>], cache |-> c]
       ELSE LET response == make_request(main.page)
            IN IF response.exc # "none"
               THEN [exc |-> response.exc, val |-> <<>>, cache |-> c]
               ELSE IF main.page = "no_tables"        \* find_all("table")[4]
               THEN [exc |-> "IndexError", val |-> <<>>, cache |-> c]
               ELSE IF main.page = "no_cell"          \* row.td is None
               THEN [exc |-> "AttributeError", val |-> <<>>, cache |-> c]
               ELSE LET date == strptime(main.cell)
                    IN IF date.exc # "none"
                       THEN [exc |-> date.exc, val |-> <<>>, cache |-> c]
                       ELSE [exc |-> "none", val |-> date.val,
                             cache |-> [c EXCEPT
                                 !.fetch_latest_allocations_holdings_date =
                                     (<<>> :> date.val) @@ lru]]

(* datetime(date[0], date[1], 1) as a number that orders as datetimes do *)
datetime(year, month) == year * 12 + month

(* An outcome of fetch_allocations_holdings: the exception that reaches the
   caller (exc) and the dates its message names (named), the outcome of the
   latest-date lookup (latest), the arguments
   get_holdings_and_allocations_data was called with (requested), the table
   returned (df), and the cache and logger level left behind *)
SdrOutcome(exc, named, latest, requested, df, c, level) ==
    [exc |-> exc, named |-> named, latest |-> latest, requested |-> requested,
     df |-> df, cache |-> c, level |-> level]

(* The last statement: the cached download of the date, year first *)
ReturnHoldings(date, latest, c, level, tsv) ==
    LET h == get_holdings_and_allocations_data(date[1], date[2], c, tsv)
    IN SdrOutcome(h.exc, <<>>, latest, <<date>>,
                  IF h.exc = "none" THEN <<h.val>> ELSE <<>>, h.cache, level)

(* fetch_allocations_holdings fetching the latest date in place of a later
   one, as its docstring has it *)
fetch_allocations_holdings_Clamp(date, c, level, main, tsv) ==
    IF date = PyNone
    THEN LET found == fetch_latest_allocations_holdings_date(c, main)
         IN IF found.exc # "none"
            THEN SdrOutcome(found.exc, <<>>, found, <<>>, <<>>, found.cache, level)
            ELSE ReturnHoldings(found.val, found, found.cache, level, tsv)
    ELSE LET original_logger_level == level
             latest_date == fetch_latest_allocations_holdings_date(c, main)
         IN IF latest_date.exc # "none"
            THEN SdrOutcome(latest_date.exc, <<>>, latest_date, <<>>, <<>>,
                            latest_date.cache, WARNING)
            ELSE IF datetime(date[1], date[2])
                        > datetime(latest_date.val[1], latest_date.val[2])
            THEN ReturnHoldings(latest_date.val, latest_date, latest_date.cache,
                                original_logger_level, tsv)
            ELSE ReturnHoldings(date, latest_date, latest_date.cache,
                                original_logger_level, tsv)

fetch_allocations_holdings(date, c, level, main, tsv) ==
    IF date = PyNone
    THEN LET found == fetch_latest_allocations_holdings_date(c, main)
         IN IF found.exc # "none"
            THEN SdrOutcome(found.exc, <<>>, found, <<>>, <<>>, found.cache, level)
            ELSE ReturnHoldings(found.val, found, found.cache, level, tsv)
    ELSE LET original_logger_level == level
             latest_date == fetch_latest_allocations_holdings_date(c, main)
         IN IF latest_date.exc # "none"
            THEN SdrOutcome(latest_date.exc, <<>>, latest_date, <<>>, <<>>,
                            latest_date.cache, WARNING)
            ELSE IF datetime(date[1], date[2])
                        > datetime(latest_date.val[1], latest_date.val[2])
            THEN SdrOutcome("ValueError", <<date, latest_date.val>>, latest_date,
                            <<>>, <<>>, latest_date.cache, original_logger_level)
            ELSE ReturnHoldings(date, latest_date, latest_date.cache,
                                original_logger_level, tsv)

(* The two cached rate readers: get_..._data raises ConnectionError or
   ValueError, and a table is cached under the arguments of the call *)
get_rates_data(served) ==
    IF served = "unreachable" THEN Raise("ConnectionError")
    ELSE IF served = "ParserError" THEN Raise("ValueError")
    ELSE Return("rates")

fetch_exchange_rates(unit_basis, c, served) ==
    LET lru == c.fetch_exchange_rates
    IN IF <<unit_basis>> \in DOMAIN lru
       THEN [exc |-> "none", cache |-> c]
       ELSE LET df == get_rates_data(served)
            IN IF df.exc # "none" THEN [exc |-> df.exc, cache |-> c]
               ELSE [exc |-> "none",
                     cache |-> [c EXCEPT !.fetch_exchange_rates =
                                             (<<unit_basis>> :> unit_basis) @@ lru]]

fetch_interest_rates(c, served) ==
    LET lru == c.fetch_interest_rates
    IN IF <<>> \in DOMAIN lru
       THEN [exc |-> "none", cache |-> c]
       ELSE LET df == get_rates_data(served)
            IN IF df.exc # "none" THEN [exc |-> df.exc, cache |-> c]
               ELSE [exc |-> "none",
                     cache |-> [c EXCEPT !.fetch_interest_rates =
                                             (<<>> :> "rates") @@ lru]]

(* sdr.clear_cache: the cache it leaves and the functions whose cache_clear
   it called, in call order *)
sdr_clear_cache(c) ==
    LET announcements ==
            currsize(c.get_holdings_and_allocations_data) > 0
            \/ currsize(c.fetch_latest_allocations_holdings_date) > 0
        exchange == currsize(c.fetch_exchange_rates) > 0
        interest == currsize(c.fetch_interest_rates) > 0
    IN [cache |->
            [get_holdings_and_allocations_data |->
                 IF announcements THEN EmptyLru
                 ELSE c.get_holdings_and_allocations_data,
             fetch_latest_allocations_holdings_date |->
                 IF announcements THEN EmptyLru
                 ELSE c.fetch_latest_allocations_holdings_date,
             fetch_exchange_rates |->
                 IF exchange THEN EmptyLru ELSE c.fetch_exchange_rates,
             fetch_interest_rates |->
                 IF interest THEN EmptyLru ELSE c.fetch_interest_rates],
        cleared |->
            (IF announcements
             THEN <<"get_holdings_and_allocations_data",
                    "fetch_latest_allocations_holdings_date">> ELSE <<>>)
            \o (IF exchange THEN <<"fetch_exchange_rates">> ELSE <<>>)
            \o (IF interest THEN <<"fetch_interest_rates">> ELSE <<>>)]

----------------------------------------------------------------------------
(* State *)

NoCall == [op |-> "none", version |-> PyNone, latest |-> <<>>,
           exc |-> "none", named |-> {}, causes |-> <<>>, fetched |-> <<>>,
           scraped |-> <<>>, rolled |-> <<>>, df |-> <<>>]

Pending == [exc |-> "pending", val |-> <<>>]

EmptyCache == [v \in {} |-> "parsed"]

Init ==
    /\ cache = EmptyCache
    /\ last_version_fetched = NoVersion      \* the attribute is not set yet
    /\ call = NoCall
    /\ last_success = NoVersion
    /\ last_failure = NoVersion
    /\ InitSdr
    /\ arg = PyNone
    /\ result = Pending

(* The version of the last invocation of _fetch in fetched that returned,
   or prev when none did *)
LastReturned(fetched, prev) ==
    LET returned == {i \in 1..Len(fetched) : fetched[i].exc = "none"}
    IN IF returned = {} THEN prev
       ELSE fetched[CHOOSE i \in returned : \A j \in returned : j <= i].version

(* The version of the last invocation of _fetch in fetched that raised,
   or prev when none did *)
LastRaised(fetched, prev) ==
    LET raised == {i \in 1..Len(fetched) : fetched[i].exc # "none"}
    IN IF raised = {} THEN prev
       ELSE fetched[CHOOSE i \in raised : \A j \in raised : j <= i].version

(* The state a finished fetch_data call leaves *)
Finish(version, latest, r) ==
    /\ cache' = r.cache
    /\ last_version_fetched' = r.lvf
    /\ call' = [op |-> "fetch_data", version |-> version, latest |-> latest,
                exc |-> r.exc, named |-> r.named, causes |-> r.causes,
                fetched |-> r.fetched, scraped |-> r.scraped,
                rolled |-> r.rolled, df |-> r.df]
    /\ last_success' = LastReturned(r.fetched, last_success)
    /\ last_failure' = LastRaised(r.fetched, last_failure)
    /\ UNCHANGED <<sdr_vars, arg, result>>

(* What gen_latest_version can return: the clock is read twice, and the
   second read shows the month of the first or the one after it *)
ClockReads == {<<first, second>> \in Dates \X (Dates \cup {NextMonth(d) : d \in Dates}) :
                  second \in {first, NextMonth(first)}}

LatestVersions == {gen_latest_version(reads[1], reads[2]) : reads \in ClockReads}

ResponsesFor(version, c) ==
    LET valid == validate_version(version)
    IN IF valid.exc = "none" THEN Responses(valid.val, c)
       ELSE {CHOOSE up \in Upstream : TRUE}

fetch_data(version) ==
    IF version # PyNone
    THEN \E up \in ResponsesFor(version, cache) :
            Finish(version, <<>>,
                   FetchVersion(version, cache, last_version_fetched, up))
    ELSE \E latest_version \in LatestVersions :
               \E up1 \in Responses(latest_version, cache) :
                  LET r1 == FetchVersion(ToPy(latest_version), cache,
                                         last_version_fetched, up1)
                  IN IF r1.exc # "NoDataError"
                     THEN Finish(version, <<latest_version>>, r1)
                     ELSE \E up2 \in ResponsesFor(
                                        ToPy(roll_back_version(latest_version).val),
                                        r1.cache) :
                             Finish(version, <<latest_version>>,
                                    FetchRolledBack(latest_version, r1, up2))

clear_cache ==
    /\ cache' = EmptyCache
    /\ call' = [NoCall EXCEPT !.op = "clear_cache"]
    /\ last_failure' = NoVersion
    /\ UNCHANGED <<last_version_fetched, last_success, sdr_vars, arg, result>>

(* The caller modifies in place the table the last fetch_data call returned,
   here df.drop(df.index, inplace=True).  _fetch returns the object its
   lru_cache holds, so the table in the cache is the one modified. *)
modify_in_place ==
    /\ call.op = "fetch_data"
    /\ call.exc = "none"
    /\ LET version == call.df[1].version
       IN /\ version \in DOMAIN cache
          /\ cache[version].rows # <<>>
          /\ cache' = [cache EXCEPT ![version] = [@ EXCEPT !.rows = <<>>]]
    /\ call' = [NoCall EXCEPT !.op = "modify_in_place"]
    /\ UNCHANGED <<last_version_fetched, last_success, last_failure,
                   sdr_vars, arg, result>>

Next ==
    \/ \E version \in Args : fetch_data(version)
    \/ fetch_data(PyNone)
    \/ clear_cache
    \/ modify_in_place

Spec == Init /\ [][Next]_vars

----------------------------------------------------------------------------
(* validate_version as a pure function: the inputs it is applied to *)

Labels == {
    April, October,
    <<Sp,"a","p","r","i","l",Sp>>, <<Sp,"a","p","R","i","l",Sp>>,
    <<"a","P","R","I","L">>, <<"o","c","t","o","b","e","r">>,
    <<"O","C","T","O","B","E","R">>, <<"\t","O","c","t","o","b","e","r","\n">>,
    <<"M","a","r","c","h">>, <<"A","p","r","i","l","s">>, <<"A","p","r",Sp,"i","l">>,
    <<"O","c","t">>, <<Sp>>, <<>> }

YearValues ==
    {PyInt(y) : y \in Years} \cup {PyStr(IntToStr(y)) : y \in Years}
    \cup {PyStr(<<Sp>> \o IntToStr(y) \o <<Sp>>) : y \in Years}
    \cup {PyFloat(y, d) : y \in Years, d \in {0, 5}}
    \cup { PyInt(0), PyInt(-1),
           PyStr(<<"+","2","0","2","4">>), PyStr(<<"-","5","\n">>),
           PyStr(<<"2","_","0","2","4">>), PyStr(<<"2","_","_","0","2","4">>),
           PyStr(<<"2","0",Sp,"2","4">>), PyStr(<<"2","0","2","4",".","5">>),
           PyStr(<<"t","w","e","n","t","y">>), PyStr(<<"-">>), PyStr(<<>>),
           PyNone }

RawVersions ==
    {PyTuple(<<PyStr(l), y>>) : l \in Labels, y \in YearValues}
    \cup {PyTuple(<<l, y>>) : l \in {PyInt(4), PyNone}, y \in YearValues}
    \cup MalformedArgs \cup {PyNone, PyFloat(MaxYear, 5)}

InitValidate ==
    /\ cache = EmptyCache
    /\ last_version_fetched = NoVersion
    /\ call = NoCall
    /\ last_success = NoVersion
    /\ last_failure = NoVersion
    /\ InitSdr
    /\ arg \in RawVersions
    /\ result = Pending

ApplyValidate ==
    /\ result = Pending
    /\ result' = validate_version(arg)
    /\ UNCHANGED <<weo_vars, sdr_vars, arg>>

NextValidate == ApplyValidate

SpecValidate == InitValidate /\ [][NextValidate]_vars

----------------------------------------------------------------------------
(* Properties of fetch_data, stated on the observation of the last call *)

IsLatestCall   == call.op = "fetch_data" /\ call.version = PyNone
IsExplicitCall == call.op = "fetch_data" /\ call.version # PyNone

(* C1: when fetch_data() finds no data for the expected latest version it
   rolls back exactly once, fetches roll_back_version of the expected latest
   version, and if that fetch returns, returns its table (the one the cache
   of _fetch holds for that version) and leaves last_version_fetched at the
   rolled-back version. *)
C1_RollbackOnce ==
    (IsLatestCall /\ Len(call.fetched) >= 1 /\ call.fetched[1].exc = "NoDataError") =>
        LET expected == call.latest[1]
            back     == roll_back_version(expected).val
        IN /\ call.fetched[1].version = expected
           /\ call.rolled = <<expected>>
           /\ Len(call.fetched) = 2
           /\ call.fetched[2].version = back
           /\ call.fetched[2].exc = "none" =>
                 /\ call.exc = "none"
                 /\ back \in DOMAIN cache
                 /\ call.df = <<[version |-> back, table |-> cache[back]]>>
                 /\ last_version_fetched = back
                 /\ last_version_fetched # expected

C1_Witness ==
    /\ IsLatestCall
    /\ Len(call.fetched) = 2
    /\ call.fetched[1].exc = "NoDataError"
    /\ call.fetched[2].exc = "none"
    /\ call.exc = "none"

(* C2: one fetch_data() call invokes _fetch at most twice and
   roll_back_version at most once, and a second invocation is for
   roll_back_version of the first one's version. *)
C2_NoRollbackChain ==
    IsLatestCall =>
        /\ Len(call.fetched) <= 2
        /\ Len(call.rolled) <= 1
        /\ Len(call.fetched) = 2 =>
              /\ call.rolled = <<call.fetched[1].version>>
              /\ call.fetched[2].version =
                     roll_back_version(call.fetched[1].version).val

C2_Witness ==
    /\ IsLatestCall
    /\ Len(call.fetched) = 2
    /\ call.fetched[2].exc = "NoDataError"
    /\ call.exc = "NoDataError"

(* C3: on the latest path a first attempt that fails with an error other
   than NoDataError is propagated at once: no rollback, no second fetch. *)
C3_OtherErrorsNotRolledBack ==
    (IsLatestCall /\ Len(call.fetched) >= 1
         /\ call.fetched[1].exc \notin {"none", "NoDataError"}) =>
        /\ call.rolled = <<>>
        /\ Len(call.fetched) = 1
        /\ call.exc = call.fetched[1].exc

(* C4: when the expected latest version and its rollback both have no data,
   the NoDataError reaching the caller names both attempted versions. *)
C4_NamesBothVersions ==
    (IsLatestCall /\ Len(call.fetched) = 2
         /\ call.fetched[1].exc = "NoDataError"
         /\ call.fetched[2].exc = "NoDataError") =>
        /\ call.exc = "NoDataError"
        /\ {Name(call.fetched[1].version), Name(call.fetched[2].version)}
               \subseteq call.named

(* C5: fetch_data with a valid explicit version invokes _fetch exactly once,
   with the normalized version, never rolls back, and fails when that
   invocation fails (with NoDataError when it raised NoDataError). *)
C5_ExplicitFetchedOnce ==
    (IsExplicitCall /\ validate_version(call.version).exc = "none") =>
        /\ Len(call.fetched) = 1
        /\ call.fetched[1].version = validate_version(call.version).val
        /\ call.rolled = <<>>
        /\ call.fetched[1].exc # "none" => (call.exc # "none" /\ call.df = <<>>)
        /\ call.fetched[1].exc = "NoDataError" => call.exc = "NoDataError"

C5_Witness ==
    /\ IsExplicitCall
    /\ Len(call.fetched) = 1
    /\ call.version # ToPy(call.fetched[1].version)
    /\ call.fetched[1].exc = "NoDataError"
    /\ call.exc = "NoDataError"

(* C6: a ConnectionError or BadZipFile raised inside _fetch reaches the
   caller of fetch_data with its own class, on both paths. *)
C6_TransportErrorsUnmasked ==
    call.op = "fetch_data" =>
        \A i \in 1..Len(call.fetched) :
            call.fetched[i].exc \in {"ConnectionError", "BadZipFile"} =>
                call.exc = call.fetched[i].exc

(* C7: fetch_data with a malformed explicit version fails with the
   invalid-version error of validate_version (TypeError), without invoking
   _fetch and without a rollback. *)
C7_InvalidVersionSurfaced ==
    (IsExplicitCall /\ validate_version(call.version).exc # "none") =>
        /\ call.exc = "TypeError"
        /\ call.fetched = <<>>
        /\ call.rolled = <<>>

(* C8: last_version_fetched is the version of the most recent invocation of
   _fetch that returned; failed calls and clear_cache leave it unchanged. *)
C8_LastVersionIsLastSuccess == last_version_fetched = last_success

C8_Witness ==
    /\ call.op = "fetch_data"
    /\ call.exc # "none"
    /\ Len(call.fetched) >= 1
    /\ last_version_fetched # NoVersion
    /\ \A i \in 1..Len(call.fetched) : call.fetched[i].version # last_version_fetched

----------------------------------------------------------------------------
(* Properties of validate_version *)

Lowered(s) == [i \in 1..Len(s) |-> lower(s[i])]

IsPair(x) == x.t = "tuple" /\ Len(x.items) = 2

RecognizedLabel(x) ==
    x.t = "str" /\ Lowered(strip(x.s)) \in {Lowered(April), Lowered(October)}

IntegerYear(x) == x.t = "int" \/ (x.t = "str" /\ IsIntLiteral(x.s))

(* C9: a pair of a period label that is April or October up to surrounding
   whitespace and letter case, and a year that is an integer or the string of
   one, validates to the canonical pair, which validates to itself. *)
C9_CanonicalPair ==
    (result # Pending /\ IsPair(arg) /\ RecognizedLabel(arg.items[1])
         /\ IntegerYear(arg.items[2])) =>
        LET label == arg.items[1]
            year  == arg.items[2]
        IN /\ result.exc = "none"
           /\ result.val[1] = (IF Lowered(strip(label.s)) = Lowered(April)
                               THEN April ELSE October)
           /\ result.val[2] = (IF year.t = "int" THEN year.i ELSE IntOfStr(year.s))
           /\ validate_version(ToPy(result.val)) = result

C9_Witness ==
    /\ result.exc = "none"
    /\ arg.items[1].s \notin ValidMonths
    /\ arg.items[2].t = "str"
    /\ Len(arg.items[2].s) > Len(IntToStr(result.val[2]))

(* C10: every invalid input (not a pair, a label that does not normalize to
   April or October, a year that is not an integer value) makes
   validate_version fail with TypeError; it never returns for one. *)
CoercibleYear(x) == IntegerYear(x) \/ (x.t = "float" /\ x.tenths = 0)

C10_InvalidRaisesTypeError ==
    (result # Pending
         /\ ~(IsPair(arg) /\ RecognizedLabel(arg.items[1])
                 /\ CoercibleYear(arg.items[2]))) =>
        result.exc = "TypeError"

----------------------------------------------------------------------------
(* gen_latest_version and roll_back_version as pure functions: the clock
   reads and the versions they are applied to *)

PolicyInputs ==
    {[fn |-> "gen_latest_version", reads |-> reads] : reads \in ClockReads}
    \cup {[fn |-> "roll_back_version", version |-> <<label, year>>] :
              label \in Labels, year \in Years \cup {1}}

InitPolicy ==
    /\ cache = EmptyCache
    /\ last_version_fetched = NoVersion
    /\ call = NoCall
    /\ last_success = NoVersion
    /\ last_failure = NoVersion
    /\ InitSdr
    /\ arg \in PolicyInputs
    /\ result = Pending

ApplyGenLatest ==
    /\ result = Pending
    /\ arg.fn = "gen_latest_version"
    /\ result' = Return(gen_latest_version(arg.reads[1], arg.reads[2]))
    /\ UNCHANGED <<weo_vars, sdr_vars, arg>>

ApplyRollBack ==
    /\ result = Pending
    /\ arg.fn = "roll_back_version"
    /\ result' = roll_back_version(arg.version)
    /\ UNCHANGED <<weo_vars, sdr_vars, arg>>

NextPolicy == ApplyGenLatest \/ ApplyRollBack

SpecPolicy == InitPolicy /\ [][NextPolicy]_vars

(* C11: for a current date in year Y, gen_latest_version returns October of
   Y-1 in months 1..3, April of Y in months 4..9 and October of Y in months
   10..12, and validate_version accepts the result unchanged. *)
C11_LatestByMonth ==
    (result # Pending /\ arg.fn = "gen_latest_version"
         /\ arg.reads[1] = arg.reads[2]) =>
        LET Y == arg.reads[1].year
            m == arg.reads[1].month
        IN /\ m \in 1..3   => result.val = <<October, Y - 1>>
           /\ m \in 4..9   => result.val = <<April, Y>>
           /\ m \in 10..12 => result.val = <<October, Y>>
           /\ validate_version(ToPy(result.val)) = Return(result.val)

C11_Witness ==
    /\ result # Pending
    /\ arg.fn = "gen_latest_version"
    /\ arg.reads[1] = arg.reads[2]
    /\ arg.reads[1].month = 4
    /\ result.val[1] = April

VersionRank(v) == 2 * v[2] + (IF v[1] = April THEN 0 ELSE 1)

(* C12: roll_back_version maps October of Y to April of Y and April of Y to
   October of Y-1; applied twice it keeps the label and lowers the year by
   one; each application gives the immediately preceding version. *)
C12_RollBackPredecessor ==
    (result # Pending /\ arg.fn = "roll_back_version"
         /\ arg.version[1] \in ValidMonths) =>
        LET label == arg.version[1]
            Y     == arg.version[2]
        IN /\ label = October => result = Return(<<April, Y>>)
           /\ label = April   => result = Return(<<October, Y - 1>>)
           /\ result.exc = "none"
           /\ roll_back_version(result.val) = Return(<<label, Y - 1>>)
           /\ roll_back_version(result.val).val # arg.version
           /\ VersionRank(result.val) = VersionRank(arg.version) - 1

C12_Witness ==
    /\ result # Pending
    /\ arg.fn = "roll_back_version"
    /\ arg.version[1] = April
    /\ result.val = <<October, arg.version[2] - 1>>

(* The class validate_version raises for an unrecognized period label *)
InvalidVersionError ==
    validate_version(PyTuple(<<PyStr(<<"M","a","r","c","h">>), PyInt(MaxYear)>>)).exc

(* C13 as claimed: roll_back_version of a version whose label is not exactly
   April or October fails with the error class validate_version raises for
   an unrecognized period label. *)
C13_SameClassAsValidate ==
    (result # Pending /\ arg.fn = "roll_back_version"
         /\ arg.version[1] \notin ValidMonths) =>
        result.exc = InvalidVersionError

(* C13 amended: roll_back_version of a version whose label is not exactly
   April or October fails with ValueError, which is not the class
   validate_version raises for an unrecognized period label. *)
C13_RaisesValueError ==
    (result # Pending /\ arg.fn = "roll_back_version"
         /\ arg.version[1] \notin ValidMonths) =>
        /\ result.exc = "ValueError"
        /\ result.exc # InvalidVersionError

C13_Witness ==
    /\ result # Pending
    /\ arg.fn = "roll_back_version"
    /\ arg.version[1] = <<"o","c","t","o","b","e","r">>
    /\ result.exc = "ValueError"

----------------------------------------------------------------------------
(* The parser's functions as pure functions: the folders, documents and
   tables they are applied to *)

Tables == {parse_xml(tree).val : tree \in DataDocuments}

ValueCells == {Obj("1,234"), Obj("--"), Obj("105.2"), Obj("n/a"), NaN}

TabTables ==
    {[columns |-> <<"ISO_CODE", "OBS_VALUE">>,
      rows |-> [r \in 1..Len(values) |-> <<Obj("USA"), values[r]>>]] :
         values \in SeqsUpTo(ValueCells, MaxObs)}
    \cup {[columns |-> <<"ISO_CODE">>, rows |-> <<<<Obj("USA")>>>>]}

(* The download pages get_soup can hand to get_sdmx_url *)
Soups == {d.page : d \in Downloads} \ {"unreachable"}

ParserInputs ==
    {[fn |-> "check_folder", sdmx_folder |-> folder] : folder \in Folders}
    \cup {[fn |-> "parse", sdmx_folder |-> folder] :
              folder \in Folders
                  \cup {Archive(data, schema) :
                            data \in DataDocuments \cup ShortDocuments,
                            schema \in Schemas}}
    \cup {[fn |-> "parse_xml", tree |-> tree] :
              tree \in DataDocuments \cup ShortDocuments}
    \cup {[fn |-> "lookup_schema_element", schema_tree |-> schema,
           field_name |-> name] : schema \in Schemas, name \in FieldNames}
    \cup {[fn |-> "add_label_columns", data_df |-> df, schema_tree |-> schema] :
              df \in Tables, schema \in Schemas}
    \cup {[fn |-> "clean_value_col", df |-> df] : df \in TabTables}
    \cup {[fn |-> "get_sdmx_url", soup |-> soup] : soup \in Soups}

InitParser ==
    /\ cache = EmptyCache
    /\ last_version_fetched = NoVersion
    /\ call = NoCall
    /\ last_success = NoVersion
    /\ last_failure = NoVersion
    /\ InitSdr
    /\ arg \in ParserInputs
    /\ result = Pending

ApplyCheckFolder ==
    /\ result = Pending
    /\ arg.fn = "check_folder"
    /\ result' = check_folder(arg.sdmx_folder)
    /\ UNCHANGED <<weo_vars, sdr_vars, arg>>

ApplyParse ==
    /\ result = Pending
    /\ arg.fn = "parse"
    /\ result' = parse(arg.sdmx_folder)
    /\ UNCHANGED <<weo_vars, sdr_vars, arg>>

ApplyParseXml ==
    /\ result = Pending
    /\ arg.fn = "parse_xml"
    /\ result' = parse_xml(arg.tree)
    /\ UNCHANGED <<weo_vars, sdr_vars, arg>>

ApplyLookup ==
    /\ result = Pending
    /\ arg.fn = "lookup_schema_element"
    /\ result' = lookup_schema_element(arg.schema_tree, arg.field_name)
    /\ UNCHANGED <<weo_vars, sdr_vars, arg>>

ApplyAddLabels ==
    /\ result = Pending
    /\ arg.fn = "add_label_columns"
    /\ result' = add_label_columns(arg.data_df, arg.schema_tree)
    /\ UNCHANGED <<weo_vars, sdr_vars, arg>>

ApplyCleanValue ==
    /\ result = Pending
    /\ arg.fn = "clean_value_col"
    /\ result' = clean_value_col(arg.df)
    /\ UNCHANGED <<weo_vars, sdr_vars, arg>>

ApplyGetSdmxUrl ==
    /\ result = Pending
    /\ arg.fn = "get_sdmx_url"
    /\ result' = get_sdmx_url(arg.soup)
    /\ UNCHANGED <<weo_vars, sdr_vars, arg>>

NextParser == \/ ApplyCheckFolder \/ ApplyParse \/ ApplyParseXml
              \/ ApplyLookup \/ ApplyAddLabels \/ ApplyCleanValue
              \/ ApplyGetSdmxUrl

SpecParser == InitParser /\ [][NextParser]_vars

Done(fn) == result.exc # "pending" /\ arg.fn = fn

(* The entry names that end in ".xml" and those that end in ".xsd" *)
XmlNames == {"weo.xml", "data/b.xml"}
XsdNames == {"weo.xsd", "d.xsd"}

CountOf(folder, names) == Cardinality({i \in 1..Len(folder) : folder[i].name \in names})

(* C14: check_folder raises UnexpectedFileError unless exactly one entry name
   ends in ".xml" and exactly one in ".xsd", the xml count being checked
   first, and returns None otherwise; parse raises the same error for a
   failing folder without having opened any entry. *)
C14_CheckedBeforeParsed ==
    /\ Done("check_folder") =>
           LET xml == CountOf(arg.sdmx_folder, XmlNames)
               xsd == CountOf(arg.sdmx_folder, XsdNames)
           IN /\ (xml # 1) =>
                     /\ result.exc = "UnexpectedFileError"
                     /\ result.msg = "There should be exactly one xml file in the folder"
              /\ (xml = 1 /\ xsd # 1) =>
                     /\ result.exc = "UnexpectedFileError"
                     /\ result.msg = "There should be exactly one xsd file in the folder"
              /\ (xml = 1 /\ xsd = 1) =>
                     /\ result.exc = "none"
                     /\ result.val = PyNone
    /\ (Done("parse") /\ (CountOf(arg.sdmx_folder, XmlNames) # 1
                               \/ CountOf(arg.sdmx_folder, XsdNames) # 1)) =>
           /\ result.exc = "UnexpectedFileError"
           /\ result.opened = <<>>

C14_Witness ==
    /\ Done("parse")
    /\ CountOf(arg.sdmx_folder, XmlNames) = 1
    /\ CountOf(arg.sdmx_folder, XsdNames) = 2
    /\ result.exc = "UnexpectedFileError"
    /\ result.opened = <<>>

RECURSIVE RowsBefore(_, _)
RowsBefore(series, i) ==
    IF i = 1 THEN 0 ELSE RowsBefore(series, i - 1) + Len(series[i - 1].children)

(* The cell of a row under a column name, missing when the table lacks it *)
CellAt(df, r, name) ==
    IF name \in Range(df.columns) THEN df.rows[r][ColumnIndex(df, name)]
    ELSE [t |-> "no column"]

(* C15: parse_xml yields one row per observation, in series order and in
   observation order inside a series; a row holds every attribute of its
   observation, every attribute of its series that the observation does not
   set, and nothing else. *)
C15_OneRowPerObservation ==
    (Done("parse_xml") /\ Len(arg.tree.children) >= 2) =>
        LET series == arg.tree.children[2].children
            df     == result.val
        IN /\ result.exc = "none"
           /\ Len(df.rows) = RowsBefore(series, Len(series) + 1)
           /\ \A i \in 1..Len(series) : \A j \in 1..Len(series[i].children) :
                  LET r          == RowsBefore(series, i) + j
                      obs_attrib == series[i].children[j].attrib
                      ser_attrib == series[i].attrib
                  IN /\ \A a \in 1..Len(obs_attrib) :
                            CellAt(df, r, obs_attrib[a][1]) = Obj(obs_attrib[a][2])
                     /\ \A a \in 1..Len(ser_attrib) :
                            \/ HasKey(obs_attrib, ser_attrib[a][1])
                            \/ CellAt(df, r, ser_attrib[a][1]) = Obj(ser_attrib[a][2])
                     /\ \A c \in 1..Len(df.columns) :
                            \/ HasKey(obs_attrib, df.columns[c])
                            \/ HasKey(ser_attrib, df.columns[c])
                            \/ df.rows[r][c] = NaN

C15_Witness ==
    /\ Done("parse_xml")
    /\ Len(arg.tree.children) >= 2
    /\ Len(arg.tree.children[2].children) = 2
    /\ Len(arg.tree.children[2].children[1].children) = 0
    /\ Len(arg.tree.children[2].children[2].children) = 2
    /\ Len(result.val.rows) = 2

(* C16 as claimed: a data file whose root has fewer than two sections makes
   parse_xml fail with MalformedArchiveError. *)
C16_MalformedArchiveError ==
    (Done("parse_xml") /\ Len(arg.tree.children) < 2) =>
        result.exc = "MalformedArchiveError"

MappedColumns == {SDMX_FIELDS_TO_MAP[i][1] : i \in 1..Len(SDMX_FIELDS_TO_MAP)}

(* The <<code, label>> pairs a schema declares for a classification *)
Declared(schema_tree, lookup_name) ==
    UNION {UNION {{<<e.attrib[1][2], e.children[1].children[1].text>> :
                      e \in Range(restriction.children)} :
                  restriction \in Range(type.children)} :
           type \in {t \in Range(schema_tree.children) :
                        t.tag = "simpleType" /\ t.attrib = << <<"name", lookup_name>> >>}}

LabelOf(schema_tree, lookup_name, cell) ==
    LET pairs == {p \in Declared(schema_tree, lookup_name) :
                      cell.t = "object" /\ p[1] = cell.v}
    IN IF pairs = {} THEN NaN ELSE Obj((CHOOSE p \in pairs : TRUE)[2])

(* C17: after add_label_columns of a table that has the five mapped columns,
   each mapped column X is named X_CODE at its old position with its old
   cells, no column is named X, the five X_LABEL columns follow all other
   columns in the declared order and hold the schema label of the row's
   code, and the rows are the same in number and order. *)
C17_CodeAndLabelColumns ==
    (Done("add_label_columns") /\ MappedColumns \subseteq Range(arg.data_df.columns)) =>
        LET df  == arg.data_df
            out == result.val
            n   == Len(df.columns)
        IN /\ result.exc = "none"
           /\ Len(out.columns) = n + Len(SDMX_FIELDS_TO_MAP)
           /\ \A c \in 1..n :
                  out.columns[c] = IF df.columns[c] \in MappedColumns
                                   THEN df.columns[c] \o "_CODE" ELSE df.columns[c]
           /\ \A i \in 1..Len(SDMX_FIELDS_TO_MAP) :
                  out.columns[n + i] = SDMX_FIELDS_TO_MAP[i][1] \o "_LABEL"
           /\ \A c \in 1..Len(out.columns) : out.columns[c] \notin MappedColumns
           /\ Len(out.rows) = Len(df.rows)
           /\ \A r \in 1..Len(df.rows) :
                  /\ \A c \in 1..n : out.rows[r][c] = df.rows[r][c]
                  /\ \A i \in 1..Len(SDMX_FIELDS_TO_MAP) :
                         out.rows[r][n + i] =
                             LabelOf(arg.schema_tree, SDMX_FIELDS_TO_MAP[i][2],
                                     CellAt(df, r, SDMX_FIELDS_TO_MAP[i][1]))

C17_Witness ==
    /\ Done("add_label_columns")
    /\ MappedColumns \subseteq Range(arg.data_df.columns)
    /\ Len(arg.data_df.rows) >= 2
    /\ arg.schema_tree = Schema(AllTypes)
    /\ result.exc = "none"
    /\ CellAt(result.val, 1, "REF_AREA_LABEL") = Obj("United States")

(* C18: lookup_schema_element returns a mapping and never raises, an empty
   one for a classification the schema does not declare; add_label_columns
   of a table that has the five mapped columns completes, and a row whose
   code the schema does not declare has a missing X_LABEL and keeps its
   X_CODE. *)
C18_LookupNeverRaises ==
    /\ Done("lookup_schema_element") =>
           /\ result.exc = "none"
           /\ (Declared(arg.schema_tree, arg.field_name) = {} => result.val = <<>>)
    /\ (Done("add_label_columns") /\ MappedColumns \subseteq Range(arg.data_df.columns)) =>
           /\ result.exc = "none"
           /\ \A r \in 1..Len(arg.data_df.rows) : \A i \in 1..Len(SDMX_FIELDS_TO_MAP) :
                  LET X    == SDMX_FIELDS_TO_MAP[i][1]
                      code == CellAt(arg.data_df, r, X)
                  IN \/ LabelOf(arg.schema_tree, SDMX_FIELDS_TO_MAP[i][2], code) # NaN
                     \/ /\ CellAt(result.val, r, X \o "_LABEL") = NaN
                        /\ CellAt(result.val, r, X \o "_CODE") = code

C18_Witness ==
    /\ Done("add_label_columns")
    /\ MappedColumns \subseteq Range(arg.data_df.columns)
    /\ Declared(arg.schema_tree, "IMF.CL_WEO_UNIT.1.0") = {}
    /\ Declared(arg.schema_tree, "IMF.CL_WEO_REF_AREA.1.0") # {}
    /\ result.exc = "none"
    /\ CellAt(result.val, 1, "UNIT_LABEL") = NaN
    /\ CellAt(result.val, 1, "UNIT_CODE").t = "object"

(* The table parse has before it coerces the numeric columns *)
Labelled(sdmx_folder) ==
    LET data_tree   == sdmx_folder[CHOOSE i \in 1..Len(sdmx_folder) :
                                       sdmx_folder[i].name \in XmlNames].root
        schema_tree == sdmx_folder[CHOOSE i \in 1..Len(sdmx_folder) :
                                       sdmx_folder[i].name \in XsdNames].root
    IN add_label_columns(parse_xml(data_tree).val, schema_tree).val

Coercible(sdmx_folder) ==
    /\ CountOf(sdmx_folder, XmlNames) = 1
    /\ CountOf(sdmx_folder, XsdNames) = 1
    /\ LET data_tree == sdmx_folder[CHOOSE i \in 1..Len(sdmx_folder) :
                                        sdmx_folder[i].name \in XmlNames].root
       IN /\ Len(data_tree.children) >= 2
          /\ \E i \in 1..Len(data_tree.children[2].children) :
                 data_tree.children[2].children[i].children # <<>>

NumericColumns == {SDMX_NUMERIC_COLUMNS[i] : i \in 1..Len(SDMX_NUMERIC_COLUMNS)}

(* The texts of the data files that are numbers, with their values, and the
   texts that are not *)
Numbers ==
    ("105.2" :> Float(1052, 1)) @@ ("111" :> Float(111, 0)) @@ ("001" :> Float(1, 0))
    @@ ("1000000000" :> Float(1000000000, 0)) @@ ("1" :> Float(1, 0))
    @@ [y \in {"2023", "2024", "2025", "2026", "2027"} |->
           Float(2022 + CHOOSE k \in 1..5 : <<"2023", "2024", "2025", "2026", "2027">>[k] = y, 0)]
NotNumbers == {"n/a", "--", "", "estimate"}

(* C19: the coercion of the numeric columns in parse never raises; a text
   that is a number becomes that number, a text that is not becomes missing,
   every other column is left as it was, and the rows are the same in number
   and order. *)
C19_CoercionNeverRaises ==
    (Done("parse") /\ Coercible(arg.sdmx_folder)) =>
        LET before == Labelled(arg.sdmx_folder)
            out    == result.val
        IN /\ result.exc = "none"
           /\ out.columns = before.columns
           /\ Len(out.rows) = Len(before.rows)
           /\ \A r \in 1..Len(before.rows) : \A c \in 1..Len(before.columns) :
                  LET old == before.rows[r][c]
                      new == out.rows[r][c]
                  IN IF before.columns[c] \notin NumericColumns THEN new = old
                     ELSE /\ (old = NaN => new = NaN)
                          /\ ((old.t = "object" /\ old.v \in DOMAIN Numbers) =>
                                 new = Numbers[old.v])
                          /\ ((old.t = "object" /\ old.v \in NotNumbers) =>
                                 new = NaN)

C19_Witness ==
    /\ Done("parse")
    /\ Coercible(arg.sdmx_folder)
    /\ result.exc = "none"
    /\ \E r \in 1..Len(result.val.rows) :
           /\ CellAt(Labelled(arg.sdmx_folder), r, "OBS_VALUE") = Obj("n/a")
           /\ CellAt(result.val, r, "OBS_VALUE") = NaN
           /\ CellAt(result.val, r, "TIME_PERIOD") = Float(2026, 0)

(* C20 as claimed: in the numeric coercion of parse and in clean_value_col
   the text "1,234" becomes the number 1234 and the text "--" becomes
   missing, and neither raises. *)
C20_ThousandsSeparator ==
    /\ (Done("parse") /\ Coercible(arg.sdmx_folder)) =>
           /\ result.exc = "none"
           /\ \A r \in 1..Len(result.val.rows) :
                  LET old == CellAt(Labelled(arg.sdmx_folder), r, "OBS_VALUE")
                      new == CellAt(result.val, r, "OBS_VALUE")
                  IN /\ (old = Obj("1,234") => new = Float(1234, 0))
                     /\ (old = Obj("--") => new = NaN)
    /\ (Done("clean_value_col") /\ "OBS_VALUE" \in Range(arg.df.columns)
            /\ \A r \in 1..Len(arg.df.rows) :
                   CellAt(arg.df, r, "OBS_VALUE") \in {Obj("1,234"), Obj("--")}) =>
           /\ result.exc = "none"
           /\ \A r \in 1..Len(arg.df.rows) :
                  LET old == CellAt(arg.df, r, "OBS_VALUE")
                      new == CellAt(result.val, r, "OBS_VALUE")
                  IN /\ (old = Obj("1,234") => new = Float(1234, 0))
                     /\ (old = Obj("--") => new = NaN)

----------------------------------------------------------------------------
(* The cache of _fetch *)

(* The call just made is a fetch_data call: call is rewritten by every
   fetch_data and clear_cache step *)
FetchDataStep == call'.op = "fetch_data"

(* C21: a version that has an entry in the cache (it was fetched with
   success and clear_cache has not been called since) is returned by every
   later fetch_data call that resolves to it, in any accepted spelling or
   through the latest path, as the cached table and without scraping or
   parsing; every successful fetch leaves an entry and no fetch_data call
   removes one; clear_cache removes all entries, and a version that has no
   entry is scraped when it is fetched *)
C21_CachedUntilCleared ==
    [][/\ FetchDataStep =>
            /\ \A v \in DOMAIN cache : v \in DOMAIN cache' /\ cache'[v] = cache[v]
            /\ \A i \in 1..Len(call'.fetched) :
                  LET f == call'.fetched[i]
                  IN /\ f.exc = "none" => f.version \in DOMAIN cache'
                     /\ f.version \in DOMAIN cache =>
                            /\ f.exc = "none"
                            /\ f.version \notin Range(call'.scraped)
                     /\ f.version \notin DOMAIN cache =>
                            f.version \in Range(call'.scraped)
            /\ \A i \in 1..Len(call'.df) :
                  call'.df[i].version \in DOMAIN cache =>
                      call'.df[i].table = cache[call'.df[i].version]
       /\ call'.op = "clear_cache" => cache' = EmptyCache]_vars

(* A call given (' apRil ', '<year>') is answered from the cache *)
C21_Witness ==
    /\ call.op = "fetch_data"
    /\ call.version \in ValidArgs \ {ToPy(<<m, y>>) : m \in ValidMonths, y \in Years}
    /\ call.exc = "none"
    /\ call.scraped = <<>>
    /\ Len(call.df) = 1

(* C26: a _fetch that raised leaves no entry for its version in the cache,
   and a version without an entry is scraped and parsed anew by the next
   fetch_data call that resolves to it, whatever happened before *)
C26_FailureLeavesNoEntry ==
    [][FetchDataStep =>
          \A i \in 1..Len(call'.fetched) :
             LET f == call'.fetched[i]
             IN /\ f.exc # "none" => f.version \notin DOMAIN cache'
                /\ f.version \notin DOMAIN cache =>
                       /\ f.version \in Range(call'.scraped)
                       /\ f.exc = "none" => cache'[f.version] = WeoTable]_vars

(* A version whose fetch failed, the cache not having been cleared since,
   is scraped again and returned *)
C26_Witness ==
    /\ call.op = "fetch_data"
    /\ call.exc = "none"
    /\ last_failure # NoVersion
    /\ last_failure \in Range(call.scraped)
    /\ Len(call.df) = 1
    /\ call.df[1].version = last_failure
    /\ last_failure \in DOMAIN cache

----------------------------------------------------------------------------
(* The version registry of imf_reader.weo.api *)

(* The sort key of get_weo_versions: (year, 0 for April, 1 for October) as
   one number *)
SortKey(v) == v[2] * 2 + (IF v[1] = April THEN 0 ELSE 1)

(* list(mapping.keys()) sorted by the key, newest first; mapping is given by
   the set of its keys *)
RECURSIVE get_weo_versions(_)
get_weo_versions(mapping) ==
    IF mapping = {} THEN <<>>
    ELSE LET newest == CHOOSE v \in mapping :
                           \A w \in mapping : SortKey(w) <= SortKey(v)
         IN <<newest>> \o get_weo_versions(mapping \ {newest})

(* What the registry may report: any non-empty set of releases *)
Registries == SUBSET (ValidMonths \X Years) \ {{}}

(* C22: whatever the registry reports, provided it lists the version that
   fetch_data() returned, that version is the first element of
   get_weo_versions, and last_version_fetched is that registry version *)
C22_LatestFromRegistry ==
    \A mapping \in Registries :
       (IsLatestCall /\ call.exc = "none" /\ call.df[1].version \in mapping) =>
           /\ call.df[1].version = get_weo_versions(mapping)[1]
           /\ last_version_fetched = get_weo_versions(mapping)[1]

----------------------------------------------------------------------------
(* C23: get_sdmx_url applied to a download page without an "SDMX Data"
   link, the anchor being absent or having no href, raises NoDataError *)
C23_MissingLinkIsNoData ==
    (Done("get_sdmx_url") /\ arg.soup \in {"no_anchor", "no_href"}) =>
        result.exc = "NoDataError"

(* The observations of the data file of a folder: one number per series *)
ObservationsOf(sdmx_folder) ==
    LET xml_file == SelectSeq(namelist(sdmx_folder),
                        LAMBDA file : endswith(file, ".xml"))[1]
        dataset  == open(sdmx_folder, xml_file).children[2]
    IN [i \in 1..Len(dataset.children) |-> Len(dataset.children[i].children)]

(* The data file of a checked folder has a data set as its second section *)
ExpectedNesting(sdmx_folder) ==
    /\ check_folder(sdmx_folder).exc = "none"
    /\ LET xml_file == SelectSeq(namelist(sdmx_folder),
                           LAMBDA file : endswith(file, ".xml"))[1]
       IN Len(open(sdmx_folder, xml_file).children) >= 2

(* C29: parse returns a table for every folder that passes check_folder and
   whose data file has a data set, and a table without rows when the data
   set has no observation *)
C29_ParsesEveryWellFormedArchive ==
    (Done("parse") /\ ExpectedNesting(arg.sdmx_folder)) =>
        /\ result.exc = "none"
        /\ (\A i \in DOMAIN ObservationsOf(arg.sdmx_folder) :
               ObservationsOf(arg.sdmx_folder)[i] = 0) => result.val.rows = <<>>

----------------------------------------------------------------------------
(* The version expected at one instant: October of the year from October
   on, April of the year from April on, October of the year before until
   then *)
ExpectedAt(d) ==
    IF d.month >= 10 THEN <<October, d.year>>
    ELSE IF d.month >= 4 THEN <<April, d.year>>
    ELSE <<October, d.year - 1>>

(* C27: whatever the clock shows at the two moments gen_latest_version reads
   it, the result is the version expected at one of the two moments *)
C27_OneInstant ==
    Done("gen_latest_version") =>
        result.val \in {ExpectedAt(arg.reads[1]), ExpectedAt(arg.reads[2])}

----------------------------------------------------------------------------
(* C28: the table a fetch_data call returns is the table as SDMXParser.parse
   made it, whatever callers did with the tables of earlier calls *)
C28_ReturnsTableAsParsed ==
    (call.op = "fetch_data" /\ call.exc = "none") =>
        call.df[1].table = WeoTable

----------------------------------------------------------------------------
(* The calls into imf_reader.sdr.  An observation of a call to
   fetch_allocations_holdings carries its argument, the logger level it
   found (level_before) and the outcome *)

SdrArgs == {PyNone} \cup SdrDates

InitSdrSpec ==
    /\ cache = EmptyCache
    /\ last_version_fetched = NoVersion
    /\ call = NoCall
    /\ last_success = NoVersion
    /\ last_failure = NoVersion
    /\ InitSdr
    /\ arg = PyNone
    /\ result = Pending

CallAllocationsHoldings ==
    \E date \in SdrArgs, main \in MainPages, tsv \in TsvFiles :
       LET r == fetch_allocations_holdings(date, sdr_cache, logger_level, main, tsv)
       IN /\ sdr_cache' = r.cache
          /\ logger_level' = r.level
          /\ sdr_call' = [op |-> "fetch_allocations_holdings", date |-> date,
                          level_before |-> logger_level,
                          exc |-> r.exc, named |-> r.named,
                          latest |-> [exc |-> r.latest.exc, val |-> r.latest.val],
                          requested |-> r.requested, df |-> r.df]
          /\ UNCHANGED <<weo_vars, arg, result>>

CallLatestDate ==
    \E main \in MainPages :
       LET r == fetch_latest_allocations_holdings_date(sdr_cache, main)
       IN /\ sdr_cache' = r.cache
          /\ sdr_call' = [op |-> "fetch_latest_allocations_holdings_date",
                          exc |-> r.exc]
          /\ UNCHANGED <<weo_vars, logger_level, arg, result>>

CallExchangeRates ==
    \E unit_basis \in {"SDR", "USD"}, served \in RatePages :
       LET r == fetch_exchange_rates(unit_basis, sdr_cache, served)
       IN /\ sdr_cache' = r.cache
          /\ sdr_call' = [op |-> "fetch_exchange_rates", exc |-> r.exc]
          /\ UNCHANGED <<weo_vars, logger_level, arg, result>>

CallInterestRates ==
    \E served \in RatePages :
       LET r == fetch_interest_rates(sdr_cache, served)
       IN /\ sdr_cache' = r.cache
          /\ sdr_call' = [op |-> "fetch_interest_rates", exc |-> r.exc]
          /\ UNCHANGED <<weo_vars, logger_level, arg, result>>

CallSdrClearCache ==
    LET r == sdr_clear_cache(sdr_cache)
    IN /\ sdr_cache' = r.cache
       /\ sdr_call' = [op |-> "clear_cache", cleared |-> r.cleared]
       /\ UNCHANGED <<weo_vars, logger_level, arg, result>>

NextSdr == \/ CallAllocationsHoldings \/ CallLatestDate \/ CallExchangeRates
           \/ CallInterestRates \/ CallSdrClearCache

SpecSdr == InitSdrSpec /\ [][NextSdr]_vars

IsHoldingsCall == sdr_call.op = "fetch_allocations_holdings"

(* (year, month) a is later than (year, month) b *)
Later(a, b) == a[1] > b[1] \/ (a[1] = b[1] /\ a[2] > b[2])

(* C24: the latest available date being known, fetch_allocations_holdings
   given a later date raises ValueError naming the date asked for and the
   latest date and does not call get_holdings_and_allocations_data; given a
   date that is not later it calls get_holdings_and_allocations_data with
   that date; given no date it calls it with the latest date *)
C24_FutureDateRejected ==
    (IsHoldingsCall /\ sdr_call.latest.exc = "none") =>
        LET date   == sdr_call.date
            latest == sdr_call.latest.val
        IN IF date = PyNone THEN sdr_call.requested = <<latest>>
           ELSE IF Later(date, latest)
           THEN /\ sdr_call.exc = "ValueError"
                /\ sdr_call.named = <<date, latest>>
                /\ sdr_call.requested = <<>>
                /\ sdr_call.df = <<>>
           ELSE sdr_call.requested = <<date>>

(* A call for a date later than the latest one was refused *)
C24_Witness ==
    /\ IsHoldingsCall
    /\ sdr_call.date # PyNone
    /\ sdr_call.latest.exc = "none"
    /\ Later(sdr_call.date, sdr_call.latest.val)
    /\ sdr_call.exc = "ValueError"
    /\ sdr_call.named = <<sdr_call.date, sdr_call.latest.val>>

(* The four cached functions of imf_reader.sdr *)
CachedSdrFunctions == {"get_holdings_and_allocations_data",
                       "fetch_latest_allocations_holdings_date",
                       "fetch_exchange_rates", "fetch_interest_rates"}

(* C25: every call of sdr.clear_cache calls cache_clear once on each of the
   four cached functions and leaves the four caches empty *)
C25_ClearsEachCacheOnce ==
    sdr_call.op = "clear_cache" =>
        /\ \A f \in CachedSdrFunctions :
              Cardinality({i \in 1..Len(sdr_call.cleared) : sdr_call.cleared[i] = f}) = 1
        /\ sdr_cache = EmptySdrCache

(* C30: a call of fetch_allocations_holdings leaves the level of the logger
   as it found it, whether it returns or raises *)
C30_LoggerLevelRestored ==
    IsHoldingsCall => logger_level = sdr_call.level_before

====
